---- MODULE Spec2Model ----
(***************************************************************************)
(* A model of the Markdown-to-HTML rendering pipeline of baoyu-skills:     *)
(* the renderer session of initRenderer (footnote registry, render         *)
(* options, list nesting stacks), its link / image / list / listitem       *)
(* rules, and the structure-repair pass modifyHtmlStructure.               *)
(*                                                                         *)
(* Strings are sequences of tokens: a token is a word of text or one       *)
(* piece of markup, so concatenation is \o and the empty string is <<>>.   *)
(***************************************************************************)
EXTENDS Integers, Sequences, FiniteSets, TLC

\* ------------------------------------------------------------------------
\* Bounds of the model
\* ------------------------------------------------------------------------

\* Distinct paths under each host: the number of distinct links of a document.
MaxPath == 2

\* Deepest nesting of lists in a document.
MaxDepth == 3

\* List items in a document, over all its lists.
MaxItems == 3

\* Largest start number of an ordered list.
MaxStart == 2

\* Longest markup given to the structure repair on its own, in tokens.
MaxHtmlLen == 5

\* Longest legend policy, in tokens (words and "-" separators).
MaxLegendLen == 3

\* Items of CSS text in the inlined document.
MaxCssLen == 2

\* Arguments of a command line.
MaxArgs == 3

\* Runs of the program against one output path.
MaxRuns == 3

\* Arguments of a command line that sets options.
MaxOptionArgs == 2

\* Lines of the body of a Markdown file.
MaxBodyLen == 2

\* Rules of a stylesheet.
MaxSheetLen == 2

\* Documents rendered while two renderers exist.
MaxRenders == 2

\* Lines of the front-matter block of an EXTEND.md.
MaxConfigLines == 2

\* ------------------------------------------------------------------------
\* Values
\* ------------------------------------------------------------------------

\* undefined, as the value of a boolean option that was never given.
Undefined == "undefined"

\* The values a boolean option can hold.
Flags == {"true", "false", Undefined}

\* The empty string.
EmptyString == <<>>

\* undefined or null, as the value of a string that was never given.
NoString == <<Undefined>>

\* JavaScript truthiness of a boolean option and of a string.
TruthyFlag(b) == b = "true"
Truthy(s) == s # EmptyString /\ s # NoString

\* hrefs: scheme, "://", host, path.
Href(scheme, host, p) == <<scheme, "://", host, "/" \o ToString(p)>>

PlatformHrefs ==
    {Href("https", "mp.weixin.qq.com", 1), Href("http", "mp.weixin.qq.com", 1)}

\* Links to other places; the ftp one names the platform's host under a
\* scheme the platform test does not accept.
OtherHrefs ==
    {Href("https", "example.com", p) : p \in 1..MaxPath}
        \cup {Href("ftp", "mp.weixin.qq.com", 1)}

Hrefs == PlatformHrefs \cup OtherHrefs

\* The backtick character.
Backtick == "bt"

\* Inline child tokens of a link and the raw text they were lexed from.
TextTok(w) == [type |-> "text", text |-> w]
CodespanTok(w) == [type |-> "codespan", text |-> w]

\* Tokens.Link: href, title, text (raw) and tokens (inline children): a bare
\* URL, a labelled link, and a titled link whose label is a code span.
LinkTokens ==
    {[href |-> h, title |-> NoString, text |-> h, tokens |-> <<TextTok(h)>>] :
        h \in Hrefs}
    \cup
    {[href |-> h, title |-> NoString, text |-> <<"A">>,
      tokens |-> <<TextTok(<<"A">>)>>] : h \in Hrefs}
    \cup
    {[href |-> h, title |-> <<"A">>, text |-> <<Backtick, "A", Backtick>>,
      tokens |-> <<CodespanTok(<<"A">>)>>] : h \in Hrefs}

\* Legend policies: unset, empty, and every string of the words and "-".
LegendAlphabet == {"alt", "title", "none", "-"}

Legends ==
    {NoString} \cup UNION {[1..n -> LegendAlphabet] : n \in 0..MaxLegendLen}

\* Tokens.Image: href, title and text (the alt text); title may be null.
ImageTokens ==
    {[href |-> Href("https", "example.com", 1), title |-> t, text |-> x, tokens |-> <<>>] :
        t \in {NoString, EmptyString, <<"t">>, <<"a">>}, x \in {EmptyString, <<"a">>}}

\* ------------------------------------------------------------------------
\* State
\* ------------------------------------------------------------------------

VARIABLES
    footnotes,        \* initRenderer: footnotes, [index, title, link] triples
    footnoteIndex,    \* initRenderer: footnoteIndex
    opts,             \* initRenderer: opts
    out,              \* the string the last rule returned
    lastOp,           \* the last operation applied to the renderer
    lastTok,          \* the token the last rule was given
    lastRef,          \* what addFootnote returned in the last operation (0: not called)
    firstRef,         \* what the first addFootnote call since construction or
                      \* the last reset returned (0: not called yet)
    citedSince,       \* addFootnote calls since construction or reset (2: two or more)
    wasReset,         \* reset has been called
    clearedNonEmpty,  \* a reset has emptied a registry that held entries
    listOrderedStack, \* initRenderer: listOrderedStack
    listCounters,     \* initRenderer: listCounters
    callStack,        \* the renderer.list calls in progress, outermost first,
                      \* each with its token, its locals and its item in progress
    doc,              \* the markup of the lists rendered so far
    docExpected,      \* the same lists with every sub-list placed after its item
    itemsLeft,        \* list items the document may still hold
    multiSub,         \* some item of the document holds two sub-lists or more
    pc,               \* "render", then "repair" (in modifyHtmlStructure), then "done"
    input,            \* modifyHtmlStructure: htmlString, as first called
    html,             \* modifyHtmlStructure: output
    iterations,       \* runs of the loop body in the current call (2: two or more)
    applied,          \* calls of modifyHtmlStructure that have returned
    firstResult,      \* what the first call returned
    style,            \* main: style, the style configuration
    cssItems,         \* the CSS text of the inlined document, item by item
    cssPlace,         \* where that text stands: a <style> block or a style attribute
    normalized,       \* what normalizeInlineCss returned
    cssPc,            \* "inlined", then "normalized"
    processArgv,      \* process.argv.slice(2) of the run
    projectExtend,    \* the per-project EXTEND.md
    userExtend,       \* the per-user EXTEND.md
    themeDir,         \* the .css files of THEME_DIR, by name without .css
    inputFiles,       \* the input paths at which a file exists
    cliOptions,       \* main: options, what parseArgs returned
    io,               \* the file operations of the run, in order
    runPc,            \* where main stands
    exitCode,         \* the exit status of the run that ended
    error,            \* the message of the fatal error of the run ("": none)
    usagePrinted,     \* printUsage was called in the run
    didRender,        \* the renderer was initialised and the document rendered
    output,           \* the content of the file at the output path
    backups,          \* the backup files, each a name and a content
    backupPath,       \* main: backupPath
    before,           \* the output file and the backups when the run began
    runNo,            \* the runs begun
    now,              \* the seconds of the clock
    exits,            \* the exit statuses of the runs that ended, in order
    output0,          \* the content of the output file before the first run
    mdImpl,           \* the renderMarkdown in use: of renderer.ts or of the single-file script
    rawDoc,           \* the Markdown file, line by line
    stageLog,         \* the stages that have run, each with what it was given and returned
    mdPc,             \* the stage that runs next
    baseCss,          \* loadThemeCss: baseCss, the selectors and braces of base.css
    themeCss,         \* loadThemeCss: themeCss
    assembledCss,     \* main: css, what normalizeThemeCss(buildCss(...)) returned
    scopePc,          \* "loaded", then "assembled"
    renderers,        \* the renderers that initRenderer returned, by name: the
                      \* closure state (opts, footnotes, footnoteIndex) of each
    markedRenderer,   \* the renderer whose rules marked.use registered last
    renderersWere,    \* renderers before the last document was rendered
    renderedWith,     \* the renderer the last document was rendered with
    renderedTok,      \* the link of the last document
    renderedHtml,     \* what postProcessHtml was given and the footnotes it added
    renders,          \* documents rendered
    repPc,            \* generateImage: where the call stands
    prediction,       \* generateImage: prediction, the last response taken
    pollRequests,     \* pollPrediction: fetches made
    pollElapsed,      \* pollPrediction: Date.now() - start, in ms
    lastPoll,         \* the status of the last poll response ("none": no poll yet)
    sawSucceeded,     \* a response with status succeeded was taken
    downloads,        \* calls of downloadImage
    repError          \* the message of the error generateImage threw ("": none)

sessionVars ==
    <<footnotes, footnoteIndex, opts, out, lastOp, lastTok, lastRef, firstRef,
      citedSince, wasReset, clearedNonEmpty>>

listVars ==
    <<listOrderedStack, listCounters, callStack, doc, docExpected, itemsLeft, multiSub>>

repairVars == <<pc, input, html, iterations, applied, firstResult>>

cssVars == <<style, cssItems, cssPlace, normalized, cssPc>>

runVars ==
    <<processArgv, projectExtend, userExtend, themeDir, inputFiles, cliOptions,
      io, runPc, exitCode, error, usagePrinted, didRender, output, backups, backupPath,
      before, runNo, now, exits, output0>>

pipeVars == <<mdImpl, rawDoc, stageLog, mdPc>>

scopeVars == <<baseCss, themeCss, assembledCss, scopePc>>

instVars ==
    <<renderers, markedRenderer, renderersWere, renderedWith, renderedTok, renderedHtml,
      renders>>

replicateVars ==
    <<repPc, prediction, pollRequests, pollElapsed, lastPoll, sawSucceeded, downloads,
      repError>>

lastVars == <<instVars, replicateVars>>

laterVars == <<pipeVars, scopeVars, lastVars>>

earlierVars == <<sessionVars, listVars, repairVars, cssVars, runVars>>

vars == <<earlierVars, laterVars>>

NoTok == [href |-> NoString, title |-> NoString, text |-> NoString, tokens |-> <<>>]

\* ------------------------------------------------------------------------
\* Pure helpers of the renderer
\* ------------------------------------------------------------------------

RECURSIVE Concat(_)
Concat(ss) == IF ss = <<>> THEN <<>> ELSE Head(ss) \o Concat(Tail(ss))

\* styledContent(styleLabel, content, tagName)
StyledContent(styleLabel, content, tag) ==
    <<"<" \o tag \o " class=" \o styleLabel \o ">">> \o content \o <<"</" \o tag \o ">">>

\* this.parser.parseInline(tokens) for text and codespan children.
RenderInlineTok(tok) ==
    IF tok.type = "codespan"
    THEN StyledContent("codespan", tok.text, "code")
    ELSE tok.text

ParseInline(tokens) == Concat([i \in 1..Len(tokens) |-> RenderInlineTok(tokens[i])])

\* /^https?:\/\/mp\.weixin\.qq\.com/.test(href)
IsPlatformLink(href) ==
    /\ Len(href) >= 3
    /\ href[1] \in {"http", "https"}
    /\ href[2] = "://"
    /\ href[3] = "mp.weixin.qq.com"

\* title || text
TitleOrText(title, text) == IF Truthy(title) THEN title ELSE text

\* footnotes.find(([, , existingLink]) => existingLink === link)
FindFootnote(fs, link) ==
    LET hits == {i \in 1..Len(fs) : fs[i][3] = link}
    IN IF hits = {} THEN 0 ELSE CHOOSE i \in hits : \A j \in hits : i <= j

\* addFootnote without the lookup of an existing entry.
AddFootnote_NoLookup(fs, idx, title, link) ==
    [footnotes |-> Append(fs, <<idx + 1, title, link>>),
     footnoteIndex |-> idx + 1,
     ref |-> idx + 1]

\* addFootnote(title, link): the registry, the counter and the returned index.
AddFootnote(fs, idx, title, link) ==
    LET existing == FindFootnote(fs, link)
    IN IF existing # 0
       THEN [footnotes |-> fs, footnoteIndex |-> idx, ref |-> fs[existing][1]]
       ELSE [footnotes |-> Append(fs, <<idx + 1, title, link>>),
             footnoteIndex |-> idx + 1,
             ref |-> idx + 1]

\* buildFootnoteArray(footnotes)
RECURSIVE BuildFootnoteArray(_)
BuildFootnoteArray(fs) ==
    IF fs = <<>> THEN <<>>
    ELSE LET f == Head(fs)
             line == IF f[3] = f[2]
                     THEN <<"[", ToString(f[1]), "]", ": ">> \o f[2] \o <<"<br/>">>
                     ELSE <<"[", ToString(f[1]), "]", " ">> \o f[2] \o <<": ">> \o f[3] \o <<"<br/>">>
         IN line \o BuildFootnoteArray(Tail(fs))

\* buildFootnotes()
BuildFootnotes ==
    IF Len(footnotes) = 0
    THEN EmptyString
    ELSE StyledContent("h4", <<"cite-links">>, "h4")
            \o StyledContent("footnotes", BuildFootnoteArray(footnotes), "p")

\* { ...opts, ...newOpts }
MergeOpts(old, new) ==
    [f \in DOMAIN old |-> IF f \in DOMAIN new THEN new[f] ELSE old[f]]

\* ------------------------------------------------------------------------
\* The link rule
\* ------------------------------------------------------------------------

Anchor(href, title, body) ==
    <<"<a href=">> \o href \o <<" title=">> \o title \o <<">">> \o body \o <<"</a>">>

Sup(ref) == <<"<sup>[", ToString(ref), "]</sup>">>

\* The link rule with the citation test ahead of the text-equals-href test.
LinkRule_CiteFirst(fs, idx, o, tok) ==
    LET parsedText == ParseInline(tok.tokens)
        shown == TitleOrText(tok.title, tok.text)
        same == [footnotes |-> fs, footnoteIndex |-> idx, ref |-> 0, called |-> FALSE]
    IN IF IsPlatformLink(tok.href)
       THEN same @@ [html |-> Anchor(tok.href, shown, parsedText)]
       ELSE IF TruthyFlag(o.citeStatus)
       THEN LET r == AddFootnote(fs, idx, shown, tok.href)
            IN r @@ [called |-> TRUE,
                     html |-> Anchor(tok.href, shown, parsedText \o Sup(r.ref))]
       ELSE IF tok.href = tok.text
       THEN same @@ [html |-> parsedText]
       ELSE same @@ [html |-> Anchor(tok.href, shown, parsedText)]

\* The link rule without the platform test.
LinkRule_NoPlatformTest(fs, idx, o, tok) ==
    LET parsedText == ParseInline(tok.tokens)
        shown == TitleOrText(tok.title, tok.text)
        same == [footnotes |-> fs, footnoteIndex |-> idx, ref |-> 0, called |-> FALSE]
    IN IF tok.href = tok.text
       THEN same @@ [html |-> parsedText]
       ELSE IF TruthyFlag(o.citeStatus)
       THEN LET r == AddFootnote(fs, idx, shown, tok.href)
            IN r @@ [called |-> TRUE,
                     html |-> Anchor(tok.href, shown, parsedText \o Sup(r.ref))]
       ELSE same @@ [html |-> Anchor(tok.href, shown, parsedText)]

\* renderer.link({ href, title, text, tokens }): the returned string and the
\* registry after it.
LinkRule(fs, idx, o, tok) ==
    LET parsedText == ParseInline(tok.tokens)
        shown == TitleOrText(tok.title, tok.text)
        same == [footnotes |-> fs, footnoteIndex |-> idx, ref |-> 0, called |-> FALSE]
    IN IF IsPlatformLink(tok.href)
       THEN same @@ [html |-> Anchor(tok.href, shown, parsedText)]
       ELSE IF tok.href = tok.text
       THEN same @@ [html |-> parsedText]
       ELSE IF TruthyFlag(o.citeStatus)
       THEN LET r == AddFootnote(fs, idx, shown, tok.href)
            IN r @@ [called |-> TRUE,
                     html |-> Anchor(tok.href, shown, parsedText \o Sup(r.ref))]
       ELSE same @@ [html |-> Anchor(tok.href, shown, parsedText)]

Saturate(n) == IF n >= 2 THEN 2 ELSE n

Link(tok) ==
    LET r == LinkRule(footnotes, footnoteIndex, opts, tok)
    IN /\ footnotes' = r.footnotes
       /\ footnoteIndex' = r.footnoteIndex
       /\ out' = r.html
       /\ lastOp' = "link"
       /\ lastTok' = tok
       /\ lastRef' = IF r.called THEN r.ref ELSE 0
       /\ firstRef' = IF r.called /\ citedSince = 0 THEN r.ref ELSE firstRef
       /\ citedSince' = IF r.called THEN Saturate(citedSince + 1) ELSE citedSince
       /\ UNCHANGED <<opts, wasReset, clearedNonEmpty>>
       /\ UNCHANGED <<listVars, repairVars, cssVars, runVars, laterVars>>

\* ------------------------------------------------------------------------
\* The image rule
\* ------------------------------------------------------------------------

\* legend.split("-")
RECURSIVE Split(_)
Split(str) ==
    LET seps == {i \in 1..Len(str) : str[i] = "-"}
    IN IF seps = {}
       THEN <<str>>
       ELSE LET i == CHOOSE k \in seps : \A j \in seps : k <= j
            IN <<SubSeq(str, 1, i - 1)>> \o Split(SubSeq(str, i + 1, Len(str)))

\* The loop of transform over the option tokens.
RECURSIVE TransformFrom(_, _, _)
TransformFrom(options, text, title) ==
    IF options = <<>> THEN EmptyString
    ELSE IF Head(options) = <<"alt">> /\ Truthy(text) THEN text
    ELSE IF Head(options) = <<"title">> /\ Truthy(title) THEN title
    ELSE TransformFrom(Tail(options), text, title)

\* transform that tries alt before title whatever the policy's order.
Transform_AltFirst(legend, text, title) ==
    LET options == Split(legend)
        has(w) == \E i \in 1..Len(options) : options[i] = <<w>>
    IN IF has("alt") /\ Truthy(text) THEN text
       ELSE IF has("title") /\ Truthy(title) THEN title
       ELSE EmptyString

\* transform(legend, text, title)
Transform(legend, text, title) == TransformFrom(Split(legend), text, title)

\* renderer.image({ href, title, text })
ImageRule(o, tok) ==
    LET newText == IF Truthy(o.legend)
                   THEN Transform(o.legend, tok.text, tok.title)
                   ELSE EmptyString
        subText == IF Truthy(newText)
                   THEN StyledContent("figcaption", newText, "figcaption")
                   ELSE EmptyString
        titleAttr == IF Truthy(tok.title) THEN <<" title=">> \o tok.title ELSE EmptyString
    IN <<"<figure>", "<img src=">> \o tok.href \o titleAttr
          \o <<" alt=">> \o tok.text \o <<"/>">> \o subText \o <<"</figure>">>

Image(tok) ==
    /\ out' = ImageRule(opts, tok)
    /\ lastOp' = "image"
    /\ lastTok' = tok
    /\ lastRef' = 0
    /\ UNCHANGED <<footnotes, footnoteIndex, opts, firstRef, citedSince, wasReset,
                   clearedNonEmpty>>
    /\ UNCHANGED <<listVars, repairVars, cssVars, runVars, laterVars>>

\* ------------------------------------------------------------------------
\* Paragraphs and code blocks
\* ------------------------------------------------------------------------

\* Tokens.Image as an inline child of a paragraph.
ImageChild == [type |-> "image", href |-> Href("https", "example.com", 1),
               title |-> NoString, text |-> <<"a">>]

\* this.parser.parseInline(tokens) for the children of a paragraph: text and
\* codespan children as in links, image children through the image rule.
ParseParagraphInline(o, tokens) ==
    Concat([i \in 1..Len(tokens) |->
              IF tokens[i].type = "image"
              THEN ImageRule(o, tokens[i])
              ELSE RenderInlineTok(tokens[i])])

\* text.trim() === ""
TrimsToEmpty(text) == \A i \in 1..Len(text) : text[i] \in {" ", "\n"}

\* text.includes("<figure") && text.includes("<img")
IsFigureImage(text) ==
    /\ \E i \in 1..Len(text) : text[i] = "<figure>"
    /\ \E i \in 1..Len(text) : text[i] = "<img src="

\* renderer.paragraph
ParagraphRule(o, tok) ==
    LET text == ParseParagraphInline(o, tok.tokens)
    IN IF IsFigureImage(text) \/ TrimsToEmpty(text)
       THEN text
       ELSE StyledContent("p", text, "p")

RenderParagraph(tok) ==
    /\ out' = ParagraphRule(opts, tok)
    /\ lastOp' = "paragraph"
    /\ lastTok' = tok
    /\ lastRef' = 0
    /\ UNCHANGED <<footnotes, footnoteIndex, opts, firstRef, citedSince, wasReset,
                   clearedNonEmpty>>
    /\ UNCHANGED <<listVars, repairVars, cssVars, runVars, laterVars>>

\* The language names registered with hljs (the names of COMMON_LANGUAGES).
CommonLanguages == {"javascript", "plaintext"}

\* hljs.getLanguage(name), as a boolean
GetLanguage(name) == name \in CommonLanguages

\* lang.startsWith("mermaid"): the language tag is a sequence of words that
\* single spaces separate; these are the first words that start with mermaid.
MermaidWords == {"mermaid", "mermaidjs"}

StartsWithMermaid(lang) == lang # <<>> /\ lang[1] \in MermaidWords

\* lang.split(" ")[0]
FirstWord(lang) == IF lang = <<>> THEN "" ELSE lang[1]

\* The language tag as written in class="language-...".
JoinWords(lang) ==
    Concat([i \in 1..Len(lang) |-> IF i = 1 THEN <<lang[i]>> ELSE <<" ", lang[i]>>])

\* text.replace(/"/g, "&quot;")
EscapeQuotes(text) ==
    [i \in 1..Len(text) |-> IF text[i] = "\"" THEN "&quot;" ELSE text[i]]

\* highlightAndFormatCode(text, language, hljs, showLineNumber): the markup
\* of the highlighter, known by the language and the line-number switch it
\* was given.
HighlightAndFormatCode(text, language, showLineNumber) ==
    <<"<hljs " \o language \o (IF showLineNumber THEN " numbered" ELSE "") \o ">">>
        \o text \o <<"</hljs>">>

\* renderer.code
CodeRule(o, tok) ==
    IF StartsWithMermaid(tok.lang)
    THEN <<"<pre class=mermaid>">> \o tok.text \o <<"</pre>">>
    ELSE LET langText == FirstWord(tok.lang)
             isLanguageRegistered == GetLanguage(langText)
             language == IF isLanguageRegistered THEN langText ELSE "plaintext"
             highlighted ==
                 HighlightAndFormatCode(tok.text, language,
                                        TruthyFlag(o.isShowLineNumber))
             pendingAttr ==
                 IF ~isLanguageRegistered /\ langText # "plaintext"
                 THEN <<" data-language-pending=", langText, " data-raw-code=">>
                          \o EscapeQuotes(tok.text)
                          \o <<" data-show-line-number=", o.isShowLineNumber>>
                 ELSE EmptyString
         IN <<"<pre class=hljs code__pre>", "<span class=mac-sign>",
              "<code class=language-">> \o JoinWords(tok.lang) \o pendingAttr
                \o <<">">> \o highlighted \o <<"</code>", "</pre>">>

Code(tok) ==
    /\ out' = CodeRule(opts, tok)
    /\ lastOp' = "code"
    /\ lastTok' = tok
    /\ lastRef' = 0
    /\ UNCHANGED <<footnotes, footnoteIndex, opts, firstRef, citedSince, wasReset,
                   clearedNonEmpty>>
    /\ UNCHANGED <<listVars, repairVars, cssVars, runVars, laterVars>>

\* ------------------------------------------------------------------------
\* reset and setOptions
\* ------------------------------------------------------------------------

\* setOptions(newOpts): the options after it.
SetOptionsTo(old, newOpts) == MergeOpts(old, newOpts)

SetOptions(newOpts) ==
    /\ opts' = SetOptionsTo(opts, newOpts)
    /\ lastOp' = "setOptions"
    /\ lastTok' = NoTok
    /\ out' = EmptyString
    /\ lastRef' = 0
    /\ UNCHANGED <<footnotes, footnoteIndex, firstRef, citedSince, wasReset,
                   clearedNonEmpty>>
    /\ UNCHANGED <<listVars, repairVars, cssVars, runVars, laterVars>>

\* reset that empties the registry and keeps the counter.
ResetState_KeepsCounter(fs, idx) == [footnotes |-> <<>>, footnoteIndex |-> idx]

\* reset that zeroes the counter and keeps the registry.
ResetState_KeepsRegistry(fs, idx) == [footnotes |-> fs, footnoteIndex |-> 0]

\* reset(newOpts): the registry and the counter after it.
ResetState(fs, idx) == [footnotes |-> <<>>, footnoteIndex |-> 0]

Reset(newOpts) ==
    LET r == ResetState(footnotes, footnoteIndex)
    IN /\ footnotes' = r.footnotes
       /\ footnoteIndex' = r.footnoteIndex
       /\ opts' = SetOptionsTo(opts, newOpts)
       /\ lastOp' = "reset"
       /\ lastTok' = NoTok
       /\ out' = EmptyString
       /\ lastRef' = 0
       /\ firstRef' = 0
       /\ citedSince' = 0
       /\ wasReset' = TRUE
       /\ clearedNonEmpty' = (clearedNonEmpty \/ Len(footnotes) > 0)
       /\ UNCHANGED <<listVars, repairVars, cssVars, runVars, laterVars>>

\* ------------------------------------------------------------------------
\* The list and listitem rules
\* ------------------------------------------------------------------------

Front(seq) == SubSeq(seq, 1, Len(seq) - 1)
Last(seq) == seq[Len(seq)]

\* Tokens.List: ordered and start; start is "" for an unordered list, and
\* undefined in a token that was built without one.
ListTokens ==
    {[ordered |-> TRUE, start |-> <<ToString(n)>>] : n \in 1..MaxStart}
        \cup {[ordered |-> TRUE, start |-> NoString]}
        \cup {[ordered |-> FALSE, start |-> EmptyString]}

\* The text of a list item.
ItemText == <<"x">>

Bullet == "bullet "

\* start = 1: the default of the destructured parameter.
StartOrDefault(start) == IF start = NoString THEN <<ToString(1)>> ELSE start

\* Number(start)
NumberOf(start) ==
    IF start = EmptyString THEN 0
    ELSE CHOOSE n \in 0..MaxStart : ToString(n) = start[1]

\* renderer.paragraph for a text that is neither empty nor a figure.
Paragraph(text) == StyledContent("p", text, "p")

POpen == "<p class=p>"
PClose == "</p>"

\* .replace(/^<p(?:\s[^>]*)?>([\s\S]*?)<\/p>/, "$1")
StripFirstP(str) ==
    IF str # <<>> /\ str[1] = POpen /\ \E k \in 2..Len(str) : str[k] = PClose
    THEN LET k == CHOOSE i \in 2..Len(str) :
                     str[i] = PClose /\ \A j \in 2..(i - 1) : str[j] # PClose
         IN SubSeq(str, 2, k - 1) \o SubSeq(str, k + 1, Len(str))
    ELSE str

\* renderer.list, on entry: the two pushes.
ListPush(orderedStack, counters, token) ==
    [ordered |-> Append(orderedStack, token.ordered),
     counters |-> Append(counters, NumberOf(StartOrDefault(token.start)))]

\* The exit of renderer.list that pops the ordered flags only.
ListPop_KeepsCounters(orderedStack, counters) ==
    [ordered |-> Front(orderedStack), counters |-> counters]

\* renderer.list, on exit: the two pops.
ListPop(orderedStack, counters) ==
    [ordered |-> Front(orderedStack), counters |-> Front(counters)]

\* renderer.listitem reading the outermost frame instead of the innermost.
ListItemRead_Outermost(orderedStack, counters) ==
    LET ordered == orderedStack[1]
        idx == counters[1]
    IN [prefix |-> IF ordered THEN <<ToString(idx) \o ". ">> ELSE <<Bullet>>,
        counters |-> [counters EXCEPT ![1] = idx + 1]]

\* renderer.listitem, before its content is rendered: the prefix and the
\* counters after the increment.
ListItemRead(orderedStack, counters) ==
    LET ordered == orderedStack[Len(orderedStack)]
        idx == counters[Len(counters)]
    IN [prefix |-> IF ordered THEN <<ToString(idx) \o ". ">> ELSE <<Bullet>>,
        counters |-> [counters EXCEPT ![Len(counters)] = idx + 1]]

ListItemHtml(prefix, content) == StyledContent("listitem", prefix \o content, "li")

ListHtml(ordered, items) ==
    IF ordered THEN StyledContent("ol", items, "ol") ELSE StyledContent("ul", items, "ul")

\* A frame of callStack is a call of renderer.list: its token, the prefixes
\* its items were given, the items joined so far (html) and, for the item
\* being rendered by the block parser after its inline rendering threw, that
\* item's prefix and the output of this.parser.parse so far (content).
\* expected and subLists hold the same markup with every sub-list after its
\* parent item.
TopFrame == callStack[Len(callStack)]

SetTop(frame) == [callStack EXCEPT ![Len(callStack)] = frame]

Rendering == pc = "render"

\* renderer.list is entered, for a list of the document or for a sub-list
\* met by the block parser inside an item.
ListEnter(token) ==
    /\ Rendering
    /\ itemsLeft >= 1
    /\ Len(callStack) < MaxDepth
    /\ IF callStack = <<>> THEN TRUE ELSE TopFrame.phase = "block"
    /\ LET r == ListPush(listOrderedStack, listCounters, token)
       IN /\ listOrderedStack' = r.ordered
          /\ listCounters' = r.counters
    /\ callStack' = Append(callStack,
            [token |-> token, prefixes |-> <<>>, html |-> EmptyString,
             expected |-> EmptyString, phase |-> "items", prefix |-> EmptyString,
             content |-> EmptyString, subLists |-> EmptyString])
    /\ multiSub' = IF callStack = <<>> THEN multiSub
                   ELSE (multiSub \/ TopFrame.subLists # EmptyString)
    /\ UNCHANGED <<doc, docExpected, itemsLeft>>
    /\ UNCHANGED <<sessionVars, repairVars, cssVars, runVars, laterVars>>

\* renderer.listitem for an item whose tokens are inline: parseInline returns.
ItemInline ==
    /\ Rendering
    /\ callStack # <<>>
    /\ TopFrame.phase = "items"
    /\ itemsLeft >= 1
    /\ LET r == ListItemRead(listOrderedStack, listCounters)
           li == ListItemHtml(r.prefix, ItemText)
       IN /\ listCounters' = r.counters
          /\ callStack' = SetTop([TopFrame EXCEPT
                                    !.prefixes = Append(@, r.prefix),
                                    !.html = @ \o li,
                                    !.expected = @ \o li])
    /\ itemsLeft' = itemsLeft - 1
    /\ UNCHANGED <<listOrderedStack, doc, docExpected, multiSub>>
    /\ UNCHANGED <<sessionVars, repairVars, cssVars, runVars, laterVars>>

\* renderer.listitem for an item that holds block tokens (a paragraph, a
\* sub-list): parseInline throws and this.parser.parse starts on its tokens.
ItemBlockBegin ==
    /\ Rendering
    /\ callStack # <<>>
    /\ TopFrame.phase = "items"
    /\ itemsLeft >= 1
    /\ LET r == ListItemRead(listOrderedStack, listCounters)
       IN /\ listCounters' = r.counters
          /\ callStack' = SetTop([TopFrame EXCEPT
                                    !.prefixes = Append(@, r.prefix),
                                    !.phase = "block",
                                    !.prefix = r.prefix,
                                    !.content = Paragraph(ItemText),
                                    !.subLists = EmptyString])
    /\ itemsLeft' = itemsLeft - 1
    /\ UNCHANGED <<listOrderedStack, doc, docExpected, multiSub>>
    /\ UNCHANGED <<sessionVars, repairVars, cssVars, runVars, laterVars>>

\* this.parser.parse has returned: the first <p> is stripped and the item is
\* wrapped in <li>.
ItemBlockEnd ==
    /\ Rendering
    /\ callStack # <<>>
    /\ TopFrame.phase = "block"
    /\ LET f == TopFrame
       IN callStack' = SetTop([f EXCEPT
                !.phase = "items",
                !.html = @ \o ListItemHtml(f.prefix, StripFirstP(f.content)),
                !.expected = @ \o ListItemHtml(f.prefix, ItemText) \o f.subLists,
                !.prefix = EmptyString,
                !.content = EmptyString,
                !.subLists = EmptyString])
    /\ UNCHANGED <<listOrderedStack, listCounters, doc, docExpected, itemsLeft, multiSub>>
    /\ UNCHANGED <<sessionVars, repairVars, cssVars, runVars, laterVars>>

\* renderer.list returns, after the last of its items (a list has at least one).
ListExit ==
    /\ Rendering
    /\ callStack # <<>>
    /\ TopFrame.phase = "items"
    /\ TopFrame.prefixes # <<>>
    /\ LET r == ListPop(listOrderedStack, listCounters)
       IN /\ listOrderedStack' = r.ordered
          /\ listCounters' = r.counters
    /\ LET f == TopFrame
           rendered == ListHtml(f.token.ordered, f.html)
           wanted == ListHtml(f.token.ordered, f.expected)
           rest == Front(callStack)
       IN IF rest = <<>>
          THEN /\ callStack' = rest
               /\ doc' = doc \o rendered
               /\ docExpected' = docExpected \o wanted
          ELSE /\ callStack' = [rest EXCEPT ![Len(rest)] =
                                    [@ EXCEPT !.content = @ \o rendered,
                                              !.subLists = @ \o wanted]]
               /\ UNCHANGED <<doc, docExpected>>
    /\ UNCHANGED <<itemsLeft, multiSub>>
    /\ UNCHANGED <<sessionVars, repairVars, cssVars, runVars, laterVars>>

\* ------------------------------------------------------------------------
\* modifyHtmlStructure
\* ------------------------------------------------------------------------

LiOpen == "<li class=listitem>"
LiClose == "</li>"
UlOpen == "<ul class=ul>"
UlClose == "</ul>"
OlOpen == "<ol class=ol>"
OlClose == "</ol>"

Least(S) == CHOOSE x \in S : \A y \in S : x <= y

NoMatch == [i |-> 0, j |-> 0, k |-> 0]

\* Where <ul[\s\S]*?<\/ul>|<ol[\s\S]*?<\/ol> followed by <\/li> can end when
\* it starts at j: the closing tags of the kind opened at j that stand right
\* before a </li>.
BlockEnds(h, j) ==
    {k \in (j + 1)..(Len(h) - 1) :
        /\ \/ h[j] = UlOpen /\ h[k] = UlClose
           \/ h[j] = OlOpen /\ h[k] = OlClose
        /\ h[k + 1] = LiClose}

\* Where the sub-list group can start after the <li ...> at i.
BlockStarts(h, i) == {j \in (i + 1)..Len(h) : BlockEnds(h, j) # {}}

\* The match of
\*   /<li([^>]*)>([\s\S]*?)(<ul[\s\S]*?<\/ul>|<ol[\s\S]*?<\/ol>)<\/li>/i
\* in h: the leftmost <li ...> (at i) that has one, then the shortest $2 (the
\* group starts at j), then the shortest $3 (it ends at k).
FindMatch(h) ==
    LET starts == {i \in 1..Len(h) : h[i] = LiOpen /\ BlockStarts(h, i) # {}}
    IN IF starts = {} THEN NoMatch
       ELSE LET i == Least(starts)
                j == Least(BlockStarts(h, i))
                k == Least(BlockEnds(h, j))
            IN [i |-> i, j |-> j, k |-> k]

\* The replacement that leaves the </li> where it was: "<li$1>$2$3</li>".
ReplaceMatch_NoMove(h, m) == h

\* output.replace(pattern, "<li$1>$2</li>$3")
ReplaceMatch(h, m) ==
    SubSeq(h, 1, m.i) \o SubSeq(h, m.i + 1, m.j - 1) \o <<LiClose>>
        \o SubSeq(h, m.j, m.k) \o SubSeq(h, m.k + 2, Len(h))

\* An if in place of the while: the body runs at most once.
LoopContinues_Once(h, ran) == ran = 0 /\ FindMatch(h) # NoMatch

\* while (pattern.test(output))
LoopContinues(h, ran) == FindMatch(h) # NoMatch

\* main hands the document to modifyHtmlStructure.
RepairBegin ==
    /\ pc = "render"
    /\ callStack = <<>>
    /\ doc # EmptyString
    /\ pc' = "repair"
    /\ input' = doc
    /\ html' = doc
    /\ iterations' = 0
    /\ UNCHANGED <<applied, firstResult>>
    /\ UNCHANGED <<sessionVars, listVars, cssVars, runVars, laterVars>>

\* One run of the loop body.
RepairStep ==
    /\ pc = "repair"
    /\ LoopContinues(html, iterations)
    /\ html' = ReplaceMatch(html, FindMatch(html))
    /\ iterations' = Saturate(iterations + 1)
    /\ UNCHANGED <<pc, input, applied, firstResult>>
    /\ UNCHANGED <<sessionVars, listVars, cssVars, runVars, laterVars>>

\* The loop ends and modifyHtmlStructure returns output.
RepairReturn ==
    /\ pc = "repair"
    /\ ~LoopContinues(html, iterations)
    /\ pc' = "done"
    /\ applied' = Saturate(applied + 1)
    /\ firstResult' = IF applied = 0 THEN html ELSE firstResult
    /\ UNCHANGED <<input, html, iterations>>
    /\ UNCHANGED <<sessionVars, listVars, cssVars, runVars, laterVars>>

\* modifyHtmlStructure is called on what it returned.
ApplyAgain ==
    /\ pc = "done"
    /\ applied = 1
    /\ pc' = "repair"
    /\ iterations' = 0
    /\ UNCHANGED <<input, html, applied, firstResult>>
    /\ UNCHANGED <<sessionVars, listVars, cssVars, runVars, laterVars>>

\* ------------------------------------------------------------------------
\* buildCss, normalizeCssText and normalizeInlineCss
\* ------------------------------------------------------------------------
\* A text is a sequence of tokens.  The quotes and the semicolon are tokens
\* of their own and no other token holds one, so that the character classes
\* of the patterns are classes of tokens.

DQ == "\""
SQ == "'"
Semi == ";"
Space == " "

\* var(--name) and the name of a declaration, --name:
Ref(name) == "var(" \o name \o ")"
Decl(name) == name \o ":"

HslOpen == "hsl("
ParenClose == ")"

\* The fields of StyleConfig, in the order of the replacements of
\* normalizeCssText, and the custom property of each.
ReplacedFields ==
    <<"primaryColor", "fontFamily", "fontSize", "blockquoteBackground",
      "accentColor", "containerBg">>

StrippedFields == ReplacedFields \o <<"foreground">>

StyleFields == {StrippedFields[n] : n \in 1..Len(StrippedFields)}

PropertyOf ==
    [primaryColor |-> "--md-primary-color",
     fontFamily |-> "--md-font-family",
     fontSize |-> "--md-font-size",
     foreground |-> "--foreground",
     blockquoteBackground |-> "--blockquote-background",
     accentColor |-> "--md-accent-color",
     containerBg |-> "--md-container-bg"]

\* FONT_FAMILY_MAP: sans holds no quote, serif and mono hold single quotes,
\* serif-cjk holds double quotes.
FONT_FAMILY_MAP ==
    [sans |-> <<"-apple-system-font,BlinkMacSystemFont, Helvetica Neue,sans-serif">>,
     serif |-> <<"Optima-Regular, ", SQ, "PingFang SC", SQ, ", serif">>,
     serifCjk |-> <<DQ, "Source Han Serif SC", DQ, ", STSong, SimSun, serif">>,
     mono |-> <<"Menlo, Monaco, ", SQ, "Courier New", SQ, ", monospace">>]

DEFAULT_STYLE ==
    [primaryColor |-> <<"#0F4C81">>,
     fontFamily |-> FONT_FAMILY_MAP.sans,
     fontSize |-> <<"16px">>,
     foreground |-> <<"0 0% 3.9%">>,
     blockquoteBackground |-> <<"#f7f7f7">>,
     accentColor |-> <<"#6B7280">>,
     containerBg |-> <<"transparent">>]

\* The declaration of one field in the :root rule buildCss writes.
RootDeclaration(st, field) ==
    <<Decl(PropertyOf[field]), Space>> \o st[field] \o <<Semi>>

\* A token that [^;"']+ takes.
Plain(tok) == tok \notin {Semi, DQ, SQ}

\* text.replace(/tok/g, value), tok one token.
RECURSIVE ReplaceAll(_, _, _)
ReplaceAll(text, tok, value) ==
    IF text = <<>> THEN <<>>
    ELSE IF Head(text) = tok THEN value \o ReplaceAll(Tail(text), tok, value)
    ELSE <<Head(text)>> \o ReplaceAll(Tail(text), tok, value)

\* The six replacements of var(--x), in source order.
RECURSIVE ReplaceRefs(_, _, _)
ReplaceRefs(text, st, n) ==
    IF n > Len(ReplacedFields) THEN text
    ELSE ReplaceRefs(ReplaceAll(text, Ref(PropertyOf[ReplacedFields[n]]),
                                st[ReplacedFields[n]]),
                     st, n + 1)

\* .replace(/hsl\(var\(--foreground\)\)/g, "#3f3f3f")
RECURSIVE ReplaceHslForeground(_)
ReplaceHslForeground(text) ==
    IF text = <<>> THEN <<>>
    ELSE IF /\ Len(text) >= 3
            /\ SubSeq(text, 1, 3) = <<HslOpen, Ref(PropertyOf.foreground), ParenClose>>
         THEN <<"#3f3f3f">> \o ReplaceHslForeground(SubSeq(text, 4, Len(text)))
         ELSE <<Head(text)>> \o ReplaceHslForeground(Tail(text))

\* The length of the longest prefix of text that [^;"']+ takes.
RECURSIVE PlainRun(_)
PlainRun(text) ==
    IF text = <<>> \/ ~Plain(Head(text)) THEN 0 ELSE 1 + PlainRun(Tail(text))

\* .replace(/--name:\s*[^;"']+;?/g, ""): white space is in the class, so the
\* pattern takes the name, the longest run of the class, which must not be
\* empty, and a semicolon if one follows.
RECURSIVE RemoveDeclaration(_, _)
RemoveDeclaration(text, name) ==
    IF text = <<>> THEN <<>>
    ELSE IF Head(text) = Decl(name) /\ PlainRun(Tail(text)) >= 1
         THEN LET rest == SubSeq(text, 2 + PlainRun(Tail(text)), Len(text))
              IN RemoveDeclaration(IF rest # <<>> /\ Head(rest) = Semi
                                   THEN Tail(rest) ELSE rest,
                                   name)
         ELSE <<Head(text)>> \o RemoveDeclaration(Tail(text), name)

\* The seven removals, in source order.
RECURSIVE RemoveDeclarations(_, _)
RemoveDeclarations(text, n) ==
    IF n > Len(StrippedFields) THEN text
    ELSE RemoveDeclarations(RemoveDeclaration(text, PropertyOf[StrippedFields[n]]),
                            n + 1)

\* normalizeCssText(cssText, style)
NormalizeCssText(cssText, st) ==
    RemoveDeclarations(ReplaceHslForeground(ReplaceRefs(cssText, st, 1)), 1)

StyleOpen == "<style>"
StyleClose == "</style>"
AttrDQ == "style=" \o DQ
AttrSQ == "style=" \o SQ

\* One pass of normalizeInlineCss: output.replace(/open(...)close/g, ...),
\* the group ending at the first close after the open.
RECURSIVE NormalizeRegions(_, _, _, _)
NormalizeRegions(h, open, close, st) ==
    IF h = <<>> THEN <<>>
    ELSE IF Head(h) = open /\ \E j \in 2..Len(h) : h[j] = close
         THEN LET j == CHOOSE k \in 2..Len(h) :
                        /\ h[k] = close
                        /\ \A l \in 2..(k - 1) : h[l] # close
              IN <<open>> \o NormalizeCssText(SubSeq(h, 2, j - 1), st) \o <<close>>
                     \o NormalizeRegions(SubSeq(h, j + 1, Len(h)), open, close, st)
         ELSE <<Head(h)>> \o NormalizeRegions(Tail(h), open, close, st)

\* normalizeInlineCss(html, style): the <style> blocks, then the attributes
\* in double quotes, then those in single quotes.
NormalizeInlineCss(h, st) ==
    NormalizeRegions(
        NormalizeRegions(NormalizeRegions(h, StyleOpen, StyleClose, st),
                         AttrDQ, DQ, st),
        AttrSQ, SQ, st)

\* The CSS the inlined document may hold: a declaration of the :root rule of
\* buildCss, a property that refers to a style variable, the foreground
\* inside hsl(), and a reference to a property of the stylesheet's own.
CssItemKinds ==
    {[kind |-> k, field |-> f] : k \in {"declaration", "use"}, f \in StyleFields}
        \cup {[kind |-> "hsl", field |-> "foreground"],
              [kind |-> "own", field |-> "foreground"]}

OwnProperty == "--theme-own"

CssItemText(item, st) ==
    CASE item.kind = "declaration" -> RootDeclaration(st, item.field)
      [] item.kind = "use" -> <<"p:", Ref(PropertyOf[item.field]), Semi>>
      [] item.kind = "hsl" ->
            <<"p:", HslOpen, Ref(PropertyOf.foreground), ParenClose, Semi>>
      [] item.kind = "own" -> <<"p:", Ref(OwnProperty), Semi>>

RECURSIVE CssText(_, _)
CssText(items, st) ==
    IF items = <<>> THEN <<>>
    ELSE CssItemText(Head(items), st) \o CssText(Tail(items), st)

CssPlaces == {"block", "dq", "sq"}

\* The inlined document with a CSS text at a place.
InlinedDocument(place, text) ==
    CASE place = "block" -> <<"<html>", StyleOpen>> \o text \o <<StyleClose, "</html>">>
      [] place = "dq" -> <<"<html ", AttrDQ>> \o text \o <<DQ, ">", "</html>">>
      [] place = "sq" -> <<"<html ", AttrSQ>> \o text \o <<SQ, ">", "</html>">>

\* The style configurations: every font family preset but mono, which is
\* quoted as serif is, and a colour given as a preset or as a CSS value.
Styles ==
    {[DEFAULT_STYLE EXCEPT !.fontFamily = f, !.primaryColor = c] :
        f \in {FONT_FAMILY_MAP.sans, FONT_FAMILY_MAP.serif, FONT_FAMILY_MAP.serifCjk},
        c \in {<<"#0F4C81">>, <<Ref("--brand")>>}}

InlinedHtml == InlinedDocument(cssPlace, CssText(cssItems, style))

\* main: normalizeInlineCss(await inlineCss(html), style)
NormalizeStep ==
    /\ cssPc = "inlined"
    /\ normalized' = NormalizeInlineCss(InlinedHtml, style)
    /\ cssPc' = "normalized"
    /\ UNCHANGED <<style, cssItems, cssPlace>>
    /\ UNCHANGED <<sessionVars, listVars, repairVars, runVars, laterVars>>

\* ------------------------------------------------------------------------
\* loadExtendConfig and parseArgs
\* ------------------------------------------------------------------------
\* An argument is its flag name, when it starts with "--", up to the first
\* "=", whether it holds "=", and the rest: "--theme=grace" is
\* FlagEq("--theme", "grace"), "a.md" is Pos("a.md").

Pos(v) == [name |-> "", hasEq |-> FALSE, value |-> v]
Flag(n) == [name |-> n, hasEq |-> FALSE, value |-> ""]
FlagEq(n, v) == [name |-> n, hasEq |-> TRUE, value |-> v]

\* The argument as the string it is.
Raw(arg) ==
    IF arg.name = "" THEN arg.value
    ELSE IF arg.hasEq THEN arg.name \o "=" \o arg.value
    ELSE arg.name

FONT_SIZE_OPTIONS == {"14px", "15px", "16px", "17px", "18px"}

\* COLOR_PRESETS, two of its entries.
COLOR_PRESETS == [blue |-> <<"#0F4C81">>, purple |-> <<"#92617E">>,
                  green |-> <<"#009874">>, orange |-> <<"#D97757">>]

\* CODE_BLOCK_THEMES, three of its entries.
CODE_BLOCK_THEMES == {"github", "vs", "xcode"}

LEGEND_VALUES == {"title-alt", "alt-title", "title", "alt", "none"}

\* FONT_FAMILY_MAP is keyed by the names of the presets.
FontPresets ==
    [sans |-> FONT_FAMILY_MAP.sans, serif |-> FONT_FAMILY_MAP.serif,
     mono |-> FONT_FAMILY_MAP.mono] @@ ("serif-cjk" :> FONT_FAMILY_MAP.serifCjk)

\* FONT_FAMILY_MAP[value] ?? value
ResolveFontFamily(value) ==
    IF value \in DOMAIN FontPresets THEN FontPresets[value] ELSE <<value>>

\* COLOR_PRESETS[value] ?? value
ResolveColor(value) ==
    IF value \in DOMAIN COLOR_PRESETS THEN COLOR_PRESETS[value] ELSE <<value>>

\* value.endsWith("px"), over the values of the model.
EndsWithPx(value) == value \in FONT_SIZE_OPTIONS \cup {"20px"}

\* val.endsWith("px") ? val : `${val}px`
WithPx(value) == IF EndsWithPx(value) THEN value ELSE value \o "px"

\* An EXTEND.md file: absent, or with or without a front-matter block of
\* key: value lines.
NoFile == [exists |-> FALSE, block |-> FALSE, lines |-> <<>>]
PlainFile == [exists |-> TRUE, block |-> FALSE, lines |-> <<>>]
BlockFile(lines) == [exists |-> TRUE, block |-> TRUE, lines |-> lines]

NoConfig == <<>>
(* A config is a function from the keys it sets; <<>> sets none. *)

\* One line of parseExtendYaml.
ParseExtendLine(config, line) ==
    IF line.value \in {"null", ""} THEN config
    ELSE IF line.key \in {"default_theme", "default_color", "default_font_family",
                          "default_code_theme", "legend"}
         THEN (line.key :> line.value) @@ config
    ELSE IF line.key = "default_font_size"
         THEN (line.key :> WithPx(line.value)) @@ config
    ELSE IF line.key \in {"mac_code_block", "show_line_number", "cite", "count",
                          "keep_title"}
         THEN (line.key :> (line.value = "true")) @@ config
    ELSE config

RECURSIVE ParseExtendYamlFrom(_, _)
ParseExtendYamlFrom(config, lines) ==
    IF lines = <<>> THEN config
    ELSE ParseExtendYamlFrom(ParseExtendLine(config, Head(lines)), Tail(lines))

\* parseExtendYaml(yaml)
ParseExtendYaml(lines) == ParseExtendYamlFrom(NoConfig, lines)

\* extractYamlFrontMatter gives a truthy string: the block is there and is
\* not empty.
HasYaml(file) == file.exists /\ file.block /\ file.lines # <<>>

\* loadExtendConfig(): the first of the two files that can be read and has
\* a truthy front matter.
LoadExtendConfig(projectFile, userFile) ==
    IF HasYaml(projectFile) THEN ParseExtendYaml(projectFile.lines)
    ELSE IF HasYaml(userFile) THEN ParseExtendYaml(userFile.lines)
    ELSE NoConfig

\* ext.key ?? value
OrElse(ext, key, value) == IF key \in DOMAIN ext THEN ext[key] ELSE value

\* parseArgs returns null, having printed the message.
NullOptions(message) == [null |-> TRUE, error |-> message]

\* The locals of parseArgs before the loop.
InitialOptions(ext) ==
    [null |-> FALSE,
     inputPath |-> "",
     theme |-> OrElse(ext, "default_theme", "default"),
     keepTitle |-> OrElse(ext, "keep_title", FALSE),
     primaryColor |-> IF "default_color" \in DOMAIN ext
                      THEN ResolveColor(ext["default_color"]) ELSE NoString,
     fontFamily |-> IF "default_font_family" \in DOMAIN ext
                    THEN ResolveFontFamily(ext["default_font_family"]) ELSE NoString,
     fontSize |-> IF "default_font_size" \in DOMAIN ext
                  THEN <<ext["default_font_size"]>> ELSE NoString,
     codeTheme |-> OrElse(ext, "default_code_theme", "github"),
     isMacCodeBlock |-> OrElse(ext, "mac_code_block", TRUE),
     isShowLineNumber |-> OrElse(ext, "show_line_number", FALSE),
     citeStatus |-> OrElse(ext, "cite", FALSE),
     countStatus |-> OrElse(ext, "count", FALSE),
     legend |-> OrElse(ext, "legend", "alt")]

\* parseArgValue(argv, i, flag); "" also stands for null, which !val treats
\* as it treats "".
ParseArgValue(argv, i) ==
    IF argv[i].hasEq THEN argv[i].value
    ELSE IF i < Len(argv) THEN Raw(argv[i + 1])
    ELSE ""

\* i after a flag that took a value: if (!arg.includes("=")) i += 1
AfterValue(argv, i) == IF argv[i].hasEq THEN i + 1 ELSE i + 2

BooleanFlags ==
    {"--keep-title", "--mac-code-block", "--no-mac-code-block", "--line-number",
     "--cite", "--count"}

\* The assignments of the boolean flags.
SetBoolean(o, name) ==
    CASE name = "--keep-title" -> [o EXCEPT !.keepTitle = TRUE]
      [] name = "--mac-code-block" -> [o EXCEPT !.isMacCodeBlock = TRUE]
      [] name = "--no-mac-code-block" -> [o EXCEPT !.isMacCodeBlock = FALSE]
      [] name = "--line-number" -> [o EXCEPT !.isShowLineNumber = TRUE]
      [] name = "--cite" -> [o EXCEPT !.citeStatus = TRUE]
      [] name = "--count" -> [o EXCEPT !.countStatus = TRUE]

ValueFlags ==
    {"--theme", "--color", "--font-family", "--font-size", "--code-theme", "--legend"}

\* valid.includes(val)
ValidLegend(val) == val \in LEGEND_VALUES

\* A value flag with its value: the options after it, or null.
SetValue(o, name, val) ==
    CASE name = "--theme" -> [o EXCEPT !.theme = val]
      [] name = "--color" -> [o EXCEPT !.primaryColor = ResolveColor(val)]
      [] name = "--font-family" -> [o EXCEPT !.fontFamily = ResolveFontFamily(val)]
      [] name = "--font-size" ->
            IF WithPx(val) \in FONT_SIZE_OPTIONS
            THEN [o EXCEPT !.fontSize = <<WithPx(val)>>]
            ELSE NullOptions("Invalid font size")
      [] name = "--code-theme" ->
            IF val \in CODE_BLOCK_THEMES
            THEN [o EXCEPT !.codeTheme = val]
            ELSE NullOptions("Unknown code theme")
      [] name = "--legend" ->
            IF ValidLegend(val)
            THEN [o EXCEPT !.legend = val]
            ELSE NullOptions("Invalid legend")

\* The checks after the loop.
FinishArgs(o, themeNames) ==
    IF o.inputPath = "" THEN NullOptions("")
    ELSE IF o.theme \notin themeNames THEN NullOptions("Unknown theme")
    ELSE o

\* The loop of parseArgs from argv[i] on, the locals being o.
RECURSIVE ParseArgsFrom(_, _, _, _)
ParseArgsFrom(argv, i, o, themeNames) ==
    IF i > Len(argv) THEN FinishArgs(o, themeNames)
    ELSE LET arg == argv[i]
         IN IF arg.name = "" /\ o.inputPath = ""
            THEN ParseArgsFrom(argv, i + 1, [o EXCEPT !.inputPath = Raw(arg)],
                               themeNames)
            ELSE IF Raw(arg) \in {"--help", "-h"} THEN NullOptions("")
            ELSE IF arg.name \in BooleanFlags /\ ~arg.hasEq
            THEN ParseArgsFrom(argv, i + 1, SetBoolean(o, arg.name), themeNames)
            ELSE IF arg.name \in ValueFlags
            THEN IF ParseArgValue(argv, i) = ""
                 THEN NullOptions("Missing value")
                 ELSE LET set == SetValue(o, arg.name, ParseArgValue(argv, i))
                      IN IF set.null THEN set
                         ELSE ParseArgsFrom(argv, AfterValue(argv, i), set, themeNames)
            ELSE NullOptions("Unknown argument")

\* parseArgs(argv), the two EXTEND.md files and THEME_NAMES being given.
ParseArgs(argv, projectFile, userFile, themeNames) ==
    ParseArgsFrom(argv, 1, InitialOptions(LoadExtendConfig(projectFile, userFile)),
                  themeNames)

\* ------------------------------------------------------------------------
\* main
\* ------------------------------------------------------------------------

\* THEME_STYLE_DEFAULTS
THEME_STYLE_DEFAULTS ==
    [default |-> [primaryColor |-> COLOR_PRESETS.blue],
     grace |-> [primaryColor |-> COLOR_PRESETS.purple],
     simple |-> [primaryColor |-> COLOR_PRESETS.green],
     modern |-> [primaryColor |-> COLOR_PRESETS.orange,
                 accentColor |-> <<"#E4B1A0">>,
                 containerBg |-> <<"rgba(250, 249, 245, 1)">>,
                 fontFamily |-> FONT_FAMILY_MAP.sans,
                 fontSize |-> <<"15px">>,
                 blockquoteBackground |-> <<"rgba(255, 255, 255, 0.6)">>]]

FALLBACK_THEMES == {"default", "grace", "simple"}

\* resolveThemeNames(): the .css files of the directory but base.css, or the
\* fallback when there is none.
ThemeNames(dir) == IF dir \ {"base"} # {} THEN dir \ {"base"} ELSE FALLBACK_THEMES

\* { ...a, ...b }
Spread(a, b) == b @@ a

\* The three conditional spreads of the explicit values.
ExplicitLayer(o) ==
    Spread(Spread(IF o.primaryColor # NoString
                  THEN [primaryColor |-> o.primaryColor] ELSE <<>>,
                  IF o.fontFamily # NoString
                  THEN [fontFamily |-> o.fontFamily] ELSE <<>>),
           IF o.fontSize # NoString THEN [fontSize |-> o.fontSize] ELSE <<>>)

\* THEME_STYLE_DEFAULTS[options.theme] ?? {}
ThemeDefaults(theme) ==
    IF theme \in DOMAIN THEME_STYLE_DEFAULTS THEN THEME_STYLE_DEFAULTS[theme] ELSE <<>>

\* The merge with the theme's layer under the built-in one.
StyleOf_DefaultLast(o) ==
    Spread(Spread(ThemeDefaults(o.theme), DEFAULT_STYLE), ExplicitLayer(o))

\* main: the style configuration.
StyleOf(o) ==
    Spread(Spread(DEFAULT_STYLE, ThemeDefaults(o.theme)), ExplicitLayer(o))

\* inputPath.toLowerCase().endsWith(".md"), over the paths of the model.
MarkdownPaths == {"a.md", "a.MD"}

IsMarkdown_Any(path) == TRUE

IsMarkdown(path) == path \in MarkdownPaths

\* The output path of both Markdown paths.
OutputPath == "a.html"

Absent == "absent"

\* String(value).padStart(2, "0")
Pad(value) == IF value < 10 THEN "0" \o ToString(value) ELSE ToString(value)

\* formatTimestamp(date), date being the fields the Date getters return.
FormatTimestamp(date) ==
    ToString(date.fullYear) \o Pad(date.month + 1) \o Pad(date.date)
        \o Pad(date.hours) \o Pad(date.minutes) \o Pad(date.seconds)

\* new Date(): the clock of the runs, seconds apart.
DateOf(seconds) ==
    [fullYear |-> 2026, month |-> 0, date |-> 5, hours |-> 9, minutes |-> 7,
     seconds |-> seconds]

\* A rename that removes the old file and keeps no copy.
RenameToBackup_DropsOld(content, files, name) ==
    files

\* fs.renameSync(outputPath, backupPath): the backup files after it.
RenameToBackup(content, files, name) ==
    {f \in files : f.name # name} \cup {[name |-> name, content |-> content]}

\* loadThemeCss finds both files whatever the directory holds.
MissingCss_Never(dir, theme) == ""

\* loadThemeCss: the message of the error it throws, "" when it returns.
MissingCss(dir, theme) ==
    IF "base" \notin dir THEN "Missing base CSS"
    ELSE IF theme \notin dir THEN "Missing theme CSS"
    ELSE ""

\* The reads of loadExtendConfig.
ConfigReads(project, user) ==
    IF HasYaml(project) THEN <<"read project EXTEND.md">>
    ELSE <<"read project EXTEND.md", "read user EXTEND.md">>

\* The run ends: process.exit(code).
Exit(code, message) ==
    /\ runPc' = "exit"
    /\ exitCode' = code
    /\ error' = message
    /\ exits' = Append(exits, code)

Running(at) == runPc = at

Proceed(to) ==
    /\ runPc' = to
    /\ UNCHANGED <<exitCode, error, exits>>

environment == <<projectExtend, userExtend, themeDir, inputFiles, output0>>

otherCssVars == <<cssItems, cssPlace, normalized, cssPc>>

renderVars == <<sessionVars, listVars, repairVars, otherCssVars, laterVars>>

Unparsed == NullOptions("unparsed")

\* The modules are loaded, THEME_NAMES with them, and main calls parseArgs;
\* without options it prints the usage and exits.
Start ==
    /\ Running("start")
    /\ io' = <<"scan themes dir">> \o ConfigReads(projectExtend, userExtend)
    /\ cliOptions' = ParseArgs(processArgv, projectExtend, userExtend,
                               ThemeNames(themeDir))
    /\ IF cliOptions'.null
       THEN usagePrinted' = TRUE /\ Exit(1, cliOptions'.error)
       ELSE usagePrinted' = FALSE /\ Proceed("parsed")
    /\ UNCHANGED <<processArgv, environment, didRender, output, backups, backupPath,
                   before, runNo, now, style>>
    /\ UNCHANGED renderVars

\* main: the two checks of the input path, then the style configuration.
CheckInput ==
    /\ Running("parsed")
    /\ IF ~IsMarkdown(cliOptions.inputPath)
       THEN /\ Exit(1, "Input file must end with .md")
            /\ UNCHANGED <<io, style>>
       ELSE /\ io' = Append(io, "exists input")
            /\ IF cliOptions.inputPath \notin inputFiles
               THEN Exit(1, "File not found") /\ UNCHANGED style
               ELSE style' = StyleOf(cliOptions) /\ Proceed("styled")
    /\ UNCHANGED <<processArgv, environment, cliOptions, usagePrinted, didRender,
                   output, backups, backupPath, before, runNo, now>>
    /\ UNCHANGED renderVars

\* main: loadThemeCss, buildCss and loadCodeThemeCss.
LoadTheme ==
    /\ Running("styled")
    /\ LET missing == MissingCss(themeDir, cliOptions.theme)
       IN /\ io' = io \o
                    (IF "base" \notin themeDir THEN <<"exists base.css">>
                     ELSE IF missing # ""
                     THEN <<"exists base.css", "exists theme css">>
                     ELSE <<"exists base.css", "exists theme css", "read base.css",
                            "read theme css", "read code theme css">>)
          /\ IF missing # "" THEN Exit(1, missing) ELSE Proceed("themed")
    /\ UNCHANGED <<processArgv, environment, cliOptions, usagePrinted, didRender,
                   output, backups, backupPath, before, runNo, now, style>>
    /\ UNCHANGED renderVars

\* main: the input is read, the renderer initialised, the document rendered.
Render ==
    /\ Running("themed")
    /\ io' = Append(io, "read input")
    /\ didRender' = TRUE
    /\ Proceed("rendered")
    /\ UNCHANGED <<processArgv, environment, cliOptions, usagePrinted, output,
                   backups, backupPath, before, runNo, now, style>>
    /\ UNCHANGED renderVars

\* main: inlineCss, which throws when juice cannot be imported, then
\* normalizeInlineCss and modifyHtmlStructure.
Inline ==
    /\ Running("rendered")
    /\ \E available \in BOOLEAN :
          IF available THEN Proceed("built")
          ELSE Exit(1, "Missing dependency juice")
    /\ UNCHANGED <<processArgv, environment, cliOptions, io, usagePrinted, didRender,
                   output, backups, backupPath, before, runNo, now, style>>
    /\ UNCHANGED renderVars

\* main: the file at the output path, if any, is renamed; renameSync may throw.
Backup ==
    /\ Running("built")
    /\ IF output = Absent
       THEN /\ io' = Append(io, "exists output")
            /\ Proceed("backedUp")
            /\ UNCHANGED <<output, backups, backupPath>>
       ELSE \E renamed \in BOOLEAN :
               /\ io' = io \o <<"exists output", "rename output">>
               /\ backupPath' = OutputPath \o ".bak-" \o FormatTimestamp(DateOf(now))
               /\ IF renamed
                  THEN /\ backups' = RenameToBackup(output, backups, backupPath')
                       /\ output' = Absent
                       /\ Proceed("backedUp")
                  ELSE /\ Exit(1, "rename failed")
                       /\ UNCHANGED <<output, backups>>
    /\ UNCHANGED <<processArgv, environment, cliOptions, usagePrinted, didRender,
                   before, runNo, now, style>>
    /\ UNCHANGED renderVars

\* main: writeFileSync, which may throw, and the end of the run.
Write ==
    /\ Running("backedUp")
    /\ io' = Append(io, "write output")
    /\ \E written \in BOOLEAN :
          IF written
          THEN output' = "run" \o ToString(runNo) /\ Exit(0, "")
          ELSE UNCHANGED output /\ Exit(1, "write failed")
    /\ UNCHANGED <<processArgv, environment, cliOptions, usagePrinted, didRender,
                   backups, backupPath, before, runNo, now, style>>
    /\ UNCHANGED renderVars

\* The command lines of a sequence of runs in one directory.
RunArgvs ==
    {<<>>, <<Pos("a.md")>>, <<Pos("a.MD")>>, <<Pos("a.txt")>>,
     <<Pos("a.md"), FlagEq("--theme", "nope")>>}

\* The program is started again, at once or a second later, on the files the
\* run before it left.
RunAgain ==
    /\ Running("exit")
    /\ runNo < MaxRuns
    /\ runNo' = runNo + 1
    /\ processArgv' \in RunArgvs
    /\ \E elapsed \in 0..1 : now' = now + elapsed
    /\ before' = [output |-> output, backups |-> backups]
    /\ runPc' = "start"
    /\ io' = <<>>
    /\ cliOptions' = Unparsed
    /\ usagePrinted' = FALSE
    /\ didRender' = FALSE
    /\ backupPath' = ""
    /\ exitCode' = 0
    /\ error' = ""
    /\ style' = DEFAULT_STYLE
    /\ UNCHANGED <<environment, output, backups, exits>>
    /\ UNCHANGED renderVars

\* ------------------------------------------------------------------------
\* The stages of a run, and the two renderMarkdown
\* ------------------------------------------------------------------------
\* A Markdown file is its lines: the fence of a front-matter block, a line
\* of YAML, a line with CJK emphasis, a line of plain text.

Fence == "---"
YamlLine == "title: x"
StrongLine == "**strong**x"
TextLine == "text"

\* The place of the fence that closes the block a first-line fence opens,
\* 0 when there is none.
ClosingFence(text) ==
    IF text # <<>> /\ text[1] = Fence /\ \E j \in 2..Len(text) : text[j] = Fence
    THEN CHOOSE j \in 2..Len(text) :
            text[j] = Fence /\ \A k \in 2..(j - 1) : text[k] # Fence
    ELSE 0

\* parseFrontMatterAndContent(markdownText).markdownContent: parsed.body
MarkdownContent(text) ==
    IF ClosingFence(text) = 0 THEN text
    ELSE SubSeq(text, ClosingFence(text) + 1, Len(text))

\* preprocessCjkEmphasis on one line: a strong node becomes an html node;
\* remark writes a thematic break as *** and a Setext heading as an ATX one.
PreprocessLine(text, n) ==
    IF text[n] = StrongLine THEN "<strong>strong</strong>x"
    ELSE IF text[n] = Fence /\ n > 1 /\ text[n - 1] \notin {Fence, "***"}
         THEN "(heading of the line before)"
    ELSE IF text[n] = Fence THEN "***"
    ELSE text[n]

\* preprocessCjkEmphasis(markdown)
PreprocessCjkEmphasis(text) == [n \in 1..Len(text) |-> PreprocessLine(text, n)]

\* A stage that wraps what it is given.
Staged(name, text) == <<name \o "(">> \o text \o <<")">>

StageNames ==
    <<"parseFrontMatterAndContent", "preprocessCjkEmphasis", "marked.parse",
      "postProcessHtml", "buildHtmlDocument", "inlineCss", "normalizeInlineCss",
      "modifyHtmlStructure", "writeFileSync">>

\* What the stage before returned; the file for the first.
Given == IF stageLog = <<>> THEN rawDoc ELSE stageLog[Len(stageLog)].result

\* A stage runs on what the stage before it returned.
RunStage(name, result, next) ==
    /\ stageLog' = Append(stageLog, [stage |-> name, given |-> Given, result |-> result])
    /\ mdPc' = next
    /\ UNCHANGED <<mdImpl, rawDoc>>
    /\ UNCHANGED <<earlierVars, scopeVars, lastVars>>

\* renderMarkdown of renderer.ts starts with the split, that of the
\* single-file script with the emphasis.
FirstStage(impl) ==
    IF impl = "renderer.ts" THEN "parseFrontMatterAndContent"
    ELSE "preprocessCjkEmphasis"

SplitFrontMatter ==
    /\ mdPc = "parseFrontMatterAndContent"
    /\ RunStage("parseFrontMatterAndContent", MarkdownContent(Given),
                IF mdImpl = "renderer.ts" THEN "preprocessCjkEmphasis"
                ELSE "marked.parse")

NormalizeEmphasis ==
    /\ mdPc = "preprocessCjkEmphasis"
    /\ RunStage("preprocessCjkEmphasis", PreprocessCjkEmphasis(Given),
                IF mdImpl = "renderer.ts" THEN "marked.parse"
                ELSE "parseFrontMatterAndContent")

ParseMarkdown ==
    /\ mdPc = "marked.parse"
    /\ RunStage("marked.parse", Staged("html", Given), "postProcessHtml")

PostProcess ==
    /\ mdPc = "postProcessHtml"
    /\ RunStage("postProcessHtml", Staged("container", Given), "buildHtmlDocument")

BuildDocument ==
    /\ mdPc = "buildHtmlDocument"
    /\ RunStage("buildHtmlDocument", Staged("document", Given), "inlineCss")

InlineStyles ==
    /\ mdPc = "inlineCss"
    /\ RunStage("inlineCss", Staged("inlined", Given), "normalizeInlineCss")

NormalizeVariables ==
    /\ mdPc = "normalizeInlineCss"
    /\ RunStage("normalizeInlineCss", Staged("normalized", Given), "modifyHtmlStructure")

RepairStructure ==
    /\ mdPc = "modifyHtmlStructure"
    /\ RunStage("modifyHtmlStructure", Staged("repaired", Given), "writeFileSync")

WriteDocument ==
    /\ mdPc = "writeFileSync"
    /\ RunStage("writeFileSync", Given, "written")

\* No file is going through the stages.
InitPipeIdle ==
    /\ mdImpl = "renderer.ts"
    /\ rawDoc = <<>>
    /\ stageLog = <<>>
    /\ mdPc = "idle"

\* ------------------------------------------------------------------------
\* buildCss and stripOutputScope
\* ------------------------------------------------------------------------
\* Of a stylesheet the model keeps the selectors: the #output selector, a
\* class selector, the child combinator, the comma, the opening brace, and
\* the blanks and line ends between them.

OutputId == "#output"
ClassSel == ".c"
Child == ">"
Comma == ","
BraceOpen == "{"
Blank == " "
LineEnd == "\n"

\* \s
IsWhite(tok) == tok \in {Blank, LineEnd}

\* The length of the run of \s at the head of the text.
RECURSIVE Whites(_)
Whites(text) ==
    IF text # <<>> /\ IsWhite(Head(text)) THEN 1 + Whites(Tail(text)) ELSE 0

DropFirst(text, n) == SubSeq(text, n + 1, Len(text))

\* css.replace(/#output\s*\{/g, "body {")
RECURSIVE ScopeToBody(_)
ScopeToBody(text) ==
    IF text = <<>> THEN <<>>
    ELSE LET w == Whites(Tail(text))
         IN IF Head(text) = OutputId /\ Len(text) >= w + 2 /\ text[w + 2] = BraceOpen
            THEN <<"body", Blank, BraceOpen>> \o ScopeToBody(DropFirst(text, w + 2))
            ELSE <<Head(text)>> \o ScopeToBody(Tail(text))

\* css.replace(/#output\s+/g, "")
RECURSIVE StripScopePrefix(_)
StripScopePrefix(text) ==
    IF text = <<>> THEN <<>>
    ELSE LET w == Whites(Tail(text))
         IN IF Head(text) = OutputId /\ w >= 1
            THEN StripScopePrefix(DropFirst(text, w + 1))
            ELSE <<Head(text)>> \o StripScopePrefix(Tail(text))

\* css.replace(/^#output\s*/gm, ""), atLineStart telling whether the head of
\* the text stands at the start of a line.
RECURSIVE StripLineStart(_, _)
StripLineStart(text, atLineStart) ==
    IF text = <<>> THEN <<>>
    ELSE LET w == Whites(Tail(text))
         IN IF Head(text) = OutputId /\ atLineStart
            THEN StripLineStart(DropFirst(text, w + 1), w >= 1 /\ text[w + 1] = LineEnd)
            ELSE <<Head(text)>> \o StripLineStart(Tail(text), Head(text) = LineEnd)

\* stripOutputScope(cssContent)
StripOutputScope(css) == StripLineStart(StripScopePrefix(ScopeToBody(css)), TRUE)

\* normalizeThemeCss(css)
NormalizeThemeCss(css) == StripOutputScope(css)

\* buildCss(baseCss, themeCss, style): the selectors of the template, whose
\* last rule is #output { ... }, and the two stylesheets, joined by "\n\n".
BuildCssSelectors(base, theme) ==
    <<":root", Blank, BraceOpen, LineEnd, LineEnd, "body", Blank, BraceOpen, LineEnd,
      LineEnd, OutputId, Blank, BraceOpen>>
        \o <<LineEnd, LineEnd>> \o base \o <<LineEnd, LineEnd>> \o theme

\* main: const css = normalizeThemeCss(buildCss(baseCss, themeCss, style))
AssembleCss ==
    /\ scopePc = "loaded"
    /\ assembledCss' = NormalizeThemeCss(BuildCssSelectors(baseCss, themeCss))
    /\ scopePc' = "assembled"
    /\ UNCHANGED <<baseCss, themeCss>>
    /\ UNCHANGED <<earlierVars, pipeVars, lastVars>>

\* No stylesheet is being assembled.
InitScopeIdle ==
    /\ baseCss = <<>>
    /\ themeCss = <<>>
    /\ assembledCss = <<>>
    /\ scopePc = "idle"

\* ------------------------------------------------------------------------
\* Several renderers and the one marked
\* ------------------------------------------------------------------------

RendererNames == {"A", "B"}

\* The closure state of a renderer that initRenderer has not returned yet.
NotMade ==
    [made |-> FALSE,
     opts |-> [citeStatus |-> Undefined, legend |-> NoString,
               isShowLineNumber |-> Undefined],
     footnotes |-> <<>>, footnoteIndex |-> 0]

\* initRenderer(opts): fresh closure state.
MadeWith(o) == [made |-> TRUE, opts |-> o, footnotes |-> <<>>, footnoteIndex |-> 0]

\* buildFootnotes() of a renderer whose registry is fs
BuildFootnotesOf(fs) ==
    IF Len(fs) = 0
    THEN EmptyString
    ELSE StyledContent("h4", <<"cite-links">>, "h4")
            \o StyledContent("footnotes", BuildFootnoteArray(fs), "p")

\* marked.use({ renderer }): the rules of the renderer object given last are
\* the ones marked calls, since none of them returns false.
MarkedUse(current, name) == name

\* initRenderer(opts) for the renderer called name
InitRenderer(name, o) ==
    /\ ~renderers[name].made
    /\ renderers' = [renderers EXCEPT ![name] = MadeWith(o)]
    /\ markedRenderer' = MarkedUse(markedRenderer, name)
    /\ UNCHANGED <<renderersWere, renderedWith, renderedTok, renderedHtml, renders>>
    /\ UNCHANGED <<earlierVars, pipeVars, scopeVars, replicateVars>>

\* renderMarkdown(raw, renderer) for a document that is one link, then
\* postProcessHtml(html, reading, renderer): marked.parse calls the link rule
\* of the renderer marked holds, buildFootnotes is the given renderer's.
RenderWith(name, tok) ==
    /\ renderers[name].made
    /\ renders < MaxRenders
    /\ LET owner == renderers[markedRenderer]
           r == LinkRule(owner.footnotes, owner.footnoteIndex, owner.opts, tok)
           after == [renderers EXCEPT
                        ![markedRenderer].footnotes = r.footnotes,
                        ![markedRenderer].footnoteIndex = r.footnoteIndex]
       IN /\ renderers' = after
          /\ renderedHtml' = r.html \o BuildFootnotesOf(after[name].footnotes)
    /\ renderersWere' = renderers
    /\ renderedWith' = name
    /\ renderedTok' = tok
    /\ renders' = renders + 1
    /\ UNCHANGED markedRenderer
    /\ UNCHANGED <<earlierVars, pipeVars, scopeVars, replicateVars>>

InitInstIdle ==
    /\ renderers = [n \in RendererNames |-> NotMade]
    /\ markedRenderer = "none"
    /\ renderersWere = renderers
    /\ renderedWith = "none"
    /\ renderedTok = NoTok
    /\ renderedHtml = EmptyString
    /\ renders = 0

\* ------------------------------------------------------------------------
\* Replicate: generateImage and pollPrediction
\* ------------------------------------------------------------------------

PollIntervalMs == 2000
MaxPollMs == 300000

\* PredictionResponse: status, urls.get and output. The output is a string,
\* an array whose first element is a string, an object with a url, or
\* something else (null while the prediction runs).
Statuses == {"starting", "processing", "succeeded", "failed", "canceled"}
OutputKinds == {"string", "array", "object", "null"}

NoPrediction == [status |-> "none", pollUrl |-> FALSE, output |-> "null"]

\* The responses of POST .../predictions that the model draws from.
CreateResponses ==
    {[status |-> st, pollUrl |-> u, output |-> "null"] :
        st \in {"starting", "failed"}, u \in BOOLEAN}
    \cup {[status |-> "succeeded", pollUrl |-> TRUE, output |-> k] : k \in OutputKinds}

\* The responses of GET urls.get.
PollResponses ==
    {[status |-> st, pollUrl |-> TRUE, output |-> "null"] :
        st \in Statuses \ {"succeeded"}}
    \cup {[status |-> "succeeded", pollUrl |-> TRUE, output |-> k] :
            k \in {"string", "null"}}

\* The ms a fetch can take, and the ms a timer can fire late.
RequestMs == {0, 100000}
LateMs == {0, 100000}

Throw(message) ==
    /\ repPc' = "threw"
    /\ repError' = message

\* generateImage: what follows the create response.
AfterCreate(resp) ==
    IF resp.status # "succeeded"
    THEN IF ~resp.pollUrl THEN "no poll URL" ELSE "poll"
    ELSE "extract"

\* createPrediction: a response that is not OK throws.
CreatePrediction(ok, resp) ==
    /\ repPc = "create"
    /\ IF ~ok
       THEN /\ Throw("Replicate API error")
            /\ UNCHANGED <<prediction, sawSucceeded>>
       ELSE /\ prediction' = resp
            /\ sawSucceeded' = (resp.status = "succeeded")
            /\ IF AfterCreate(resp) = "no poll URL"
               THEN Throw("Replicate prediction did not return a poll URL")
               ELSE /\ repPc' = AfterCreate(resp)
                    /\ UNCHANGED repError
    /\ UNCHANGED <<pollRequests, pollElapsed, lastPoll, downloads>>
    /\ UNCHANGED <<earlierVars, pipeVars, scopeVars, instVars>>

\* while (Date.now() - start < MAX_POLL_MS)
LoopRuns(elapsed) == elapsed < MaxPollMs

\* pollPrediction that goes on polling after a failed or canceled response.
AfterPoll_KeepsPolling(ok, resp) ==
    IF ~ok THEN "poll error"
    ELSE IF resp.status = "succeeded" THEN "return"
    ELSE "sleep"

\* pollPrediction: what follows a poll response.
AfterPoll(ok, resp) ==
    IF ~ok THEN "poll error"
    ELSE IF resp.status = "succeeded" THEN "return"
    ELSE IF resp.status \in {"failed", "canceled"} THEN "prediction error"
    ELSE "sleep"

\* pollPrediction: one fetch of the loop and the tests on its response.
PollRequest(ok, resp, took) ==
    /\ repPc = "poll"
    /\ LoopRuns(pollElapsed)
    /\ pollRequests' = pollRequests + 1
    /\ pollElapsed' = pollElapsed + took
    /\ LET next == AfterPoll(ok, resp)
       IN /\ lastPoll' = IF ok THEN resp.status ELSE "not OK"
          /\ IF next = "return"
             THEN /\ prediction' = resp
                  /\ sawSucceeded' = TRUE
                  /\ repPc' = "extract"
                  /\ UNCHANGED repError
             ELSE /\ UNCHANGED <<prediction, sawSucceeded>>
                  /\ IF next = "sleep"
                     THEN /\ repPc' = "sleep"
                          /\ UNCHANGED repError
                     ELSE IF next = "poll error"
                     THEN Throw("Replicate poll error")
                     ELSE Throw("Replicate prediction " \o resp.status)
    /\ UNCHANGED downloads
    /\ UNCHANGED <<earlierVars, pipeVars, scopeVars, instVars>>

\* pollPrediction: the loop condition fails.
PollTimeout ==
    /\ repPc = "poll"
    /\ ~LoopRuns(pollElapsed)
    /\ Throw("Replicate prediction timed out")
    /\ UNCHANGED <<prediction, pollRequests, pollElapsed, lastPoll, sawSucceeded,
                   downloads>>
    /\ UNCHANGED <<earlierVars, pipeVars, scopeVars, instVars>>

\* A loop that does not wait between two requests.
SleepMs_None(late) == 0

\* The ms that pass in setTimeout(r, POLL_INTERVAL_MS) when the timer fires
\* late ms late.
SleepMs(late) == PollIntervalMs + late

\* await new Promise((r) => setTimeout(r, POLL_INTERVAL_MS))
Sleep(late) ==
    /\ repPc = "sleep"
    /\ pollElapsed' = pollElapsed + SleepMs(late)
    /\ repPc' = "poll"
    /\ UNCHANGED <<prediction, pollRequests, lastPoll, sawSucceeded, downloads,
                   repError>>
    /\ UNCHANGED <<earlierVars, pipeVars, scopeVars, instVars>>

\* extractOutputUrl finds a URL.
HasOutputUrl(p) == p.output \in {"string", "array", "object"}

ExtractOutputUrl ==
    /\ repPc = "extract"
    /\ IF HasOutputUrl(prediction)
       THEN /\ repPc' = "download"
            /\ UNCHANGED repError
       ELSE Throw("Unexpected Replicate output format")
    /\ UNCHANGED <<prediction, pollRequests, pollElapsed, lastPoll, sawSucceeded,
                   downloads>>
    /\ UNCHANGED <<earlierVars, pipeVars, scopeVars, instVars>>

\* downloadImage(outputUrl)
DownloadImage(ok) ==
    /\ repPc = "download"
    /\ downloads' = downloads + 1
    /\ IF ok
       THEN /\ repPc' = "returned"
            /\ UNCHANGED repError
       ELSE Throw("Failed to download image from Replicate")
    /\ UNCHANGED <<prediction, pollRequests, pollElapsed, lastPoll, sawSucceeded>>
    /\ UNCHANGED <<earlierVars, pipeVars, scopeVars, instVars>>

InitReplicateIdle ==
    /\ repPc = "idle"
    /\ prediction = NoPrediction
    /\ pollRequests = 0
    /\ pollElapsed = 0
    /\ lastPoll = "none"
    /\ sawSucceeded = FALSE
    /\ downloads = 0
    /\ repError = ""

\* ------------------------------------------------------------------------
\* The renderer session
\* ------------------------------------------------------------------------

\* Partial<IOpts> over citeStatus.
CiteOpts == {<<>>} \cup {[citeStatus |-> b] : b \in Flags}
(* <<>> has an empty DOMAIN: no field given. *)

InitSession ==
    /\ footnotes = <<>>
    /\ footnoteIndex = 0
    /\ opts \in {[citeStatus |-> c, legend |-> NoString,
                  isShowLineNumber |-> Undefined] : c \in Flags}
    /\ out = EmptyString
    /\ lastOp = "init"
    /\ lastTok = NoTok
    /\ lastRef = 0
    /\ firstRef = 0
    /\ citedSince = 0
    /\ wasReset = FALSE
    /\ clearedNonEmpty = FALSE

\* No list is being rendered and no document has been produced.
InitLists ==
    /\ listOrderedStack = <<>>
    /\ listCounters = <<>>
    /\ callStack = <<>>
    /\ doc = EmptyString
    /\ docExpected = EmptyString
    /\ itemsLeft = MaxItems
    /\ multiSub = FALSE

InitRepairIdle ==
    /\ pc = "render"
    /\ input = EmptyString
    /\ html = EmptyString
    /\ iterations = 0
    /\ applied = 0
    /\ firstResult = EmptyString

\* No document is being normalized.
InitCssIdle ==
    /\ style = DEFAULT_STYLE
    /\ cssItems = <<>>
    /\ cssPlace = "block"
    /\ normalized = EmptyString
    /\ cssPc = "idle"

\* The program is not being run.
InitRunIdle ==
    /\ processArgv = <<>>
    /\ projectExtend = NoFile
    /\ userExtend = NoFile
    /\ themeDir = {}
    /\ inputFiles = {}
    /\ output0 = Absent
    /\ output = Absent
    /\ backups = {}
    /\ before = [output |-> Absent, backups |-> {}]
    /\ runPc = "idle"
    /\ io = <<>>
    /\ cliOptions = Unparsed
    /\ usagePrinted = FALSE
    /\ didRender = FALSE
    /\ backupPath = ""
    /\ exitCode = 0
    /\ error = ""
    /\ exits = <<>>
    /\ runNo = 1
    /\ now = 0

InitLastIdle == InitInstIdle /\ InitReplicateIdle

InitLaterIdle == InitPipeIdle /\ InitScopeIdle /\ InitLastIdle

Init ==
    InitSession /\ InitLists /\ InitRepairIdle /\ InitCssIdle /\ InitRunIdle
        /\ InitLaterIdle

Next ==
    \/ \E tok \in LinkTokens : Link(tok)
    \/ \E o \in CiteOpts : SetOptions(o)
    \/ \E o \in CiteOpts : Reset(o)

Spec == Init /\ [][Next]_vars

\* A renderer whose legend option takes every policy, rendering images.
LegendOpts == {[legend |-> l] : l \in Legends}

InitImage ==
    /\ Init
    /\ opts.citeStatus = Undefined

NextImage ==
    \/ \E tok \in ImageTokens : Image(tok)
    \/ \E o \in LegendOpts : SetOptions(o)

SpecImage == InitImage /\ [][NextImage]_vars

\* A document of nested lists is rendered and its markup is repaired.
InitListDoc ==
    /\ Init
    /\ opts.citeStatus = Undefined

NextListDoc ==
    \/ \E token \in ListTokens : ListEnter(token)
    \/ ItemInline
    \/ ItemBlockBegin
    \/ ItemBlockEnd
    \/ ListExit
    \/ RepairBegin
    \/ RepairStep
    \/ RepairReturn

SpecListDoc == InitListDoc /\ [][NextListDoc]_vars

\* modifyHtmlStructure is given every markup of up to MaxHtmlLen tokens, and
\* is then given its own result.
HtmlAlphabet == {LiOpen, LiClose, UlOpen, UlClose, OlOpen, OlClose, "x"}

HtmlStrings == UNION {[1..n -> HtmlAlphabet] : n \in 0..MaxHtmlLen}

InitRepair ==
    /\ InitSession
    /\ opts.citeStatus = Undefined
    /\ InitLists
    /\ InitCssIdle
    /\ InitRunIdle
    /\ InitLaterIdle
    /\ pc = "repair"
    /\ input \in HtmlStrings
    /\ html = input
    /\ iterations = 0
    /\ applied = 0
    /\ firstResult = EmptyString

NextRepair ==
    \/ RepairStep
    \/ RepairReturn
    \/ ApplyAgain

\* The loop is a running JavaScript function: it takes its next step.
SpecRepair == InitRepair /\ [][NextRepair]_vars /\ WF_vars(NextRepair)

Contains(str, tok) == \E i \in 1..Len(str) : str[i] = tok

\* An inlined document is normalized: every style configuration, every CSS
\* text of up to MaxCssLen items at every place an attribute of which does not
\* hold its own quote.
CssTexts == UNION {[1..n -> CssItemKinds] : n \in 0..MaxCssLen}

InitCss ==
    /\ InitSession
    /\ opts.citeStatus = Undefined
    /\ InitLists
    /\ InitRepairIdle
    /\ InitRunIdle
    /\ InitLaterIdle
    /\ style \in Styles
    /\ cssItems \in CssTexts
    /\ cssPlace \in CssPlaces
    /\ cssPlace = "dq" => ~Contains(CssText(cssItems, style), DQ)
    /\ cssPlace = "sq" => ~Contains(CssText(cssItems, style), SQ)
    /\ normalized = EmptyString
    /\ cssPc = "inlined"

NextCss == NormalizeStep

SpecCss == InitCss /\ [][NextCss]_vars

\* The program is about to run on given files.
InitRunStart ==
    /\ InitSession
    /\ opts.citeStatus = Undefined
    /\ InitLists
    /\ InitRepairIdle
    /\ InitCssIdle
    /\ InitLaterIdle
    /\ runPc = "start"
    /\ io = <<>>
    /\ cliOptions = Unparsed
    /\ usagePrinted = FALSE
    /\ didRender = FALSE
    /\ backupPath = ""
    /\ exitCode = 0
    /\ error = ""
    /\ exits = <<>>
    /\ runNo = 1
    /\ now = 0

\* The output path holds what it held before the first run; no backup yet.
InitFiles ==
    /\ output = output0
    /\ backups = {}
    /\ before = [output |-> output0, backups |-> {}]

\* The steps of main.
MainStep ==
    \/ Start
    \/ CheckInput
    \/ LoadTheme
    \/ Render
    \/ Inline
    \/ Backup
    \/ Write

\* Runs that follow each other in a directory whose themes directory is
\* complete, lacks base.css, or holds base.css only.
InitRun ==
    /\ InitRunStart
    /\ processArgv \in RunArgvs
    /\ projectExtend \in {NoFile, BlockFile(<<[key |-> "default_theme", value |-> "grace"]>>)}
    /\ userExtend = NoFile
    /\ themeDir \in {{"base", "default", "grace"}, {"default", "grace"}, {"base"}}
    /\ inputFiles = {"a.md"}
    /\ output0 \in {Absent, "old"}
    /\ InitFiles

NextRun ==
    \/ MainStep
    \/ RunAgain

SpecRun == InitRun /\ [][NextRun]_vars

\* One run on every command line of up to MaxArgs arguments, most of them
\* not valid.
ArgAlphabet ==
    {Pos("a.md"), Pos("b.md"), Pos(""), Pos("-x"), Flag("--bogus"), Flag("--color"),
     Flag("--cite"), Flag("--legend"), FlagEq("--legend", "caption"),
     FlagEq("--font-size", "17"), FlagEq("--font-size", "20"),
     FlagEq("--code-theme", "nope"), FlagEq("--theme", "")}

InitArgs ==
    /\ InitRunStart
    /\ processArgv \in UNION {[1..n -> ArgAlphabet] : n \in 0..MaxArgs}
    /\ projectExtend = NoFile
    /\ userExtend = NoFile
    /\ themeDir = {"base", "default", "grace"}
    /\ inputFiles = {"a.md"}
    /\ output0 = Absent
    /\ InitFiles

NextArgs == MainStep

SpecArgs == InitArgs /\ [][NextArgs]_vars

\* One run on every command line of up to MaxOptionArgs arguments that set
\* options, with every pair of EXTEND.md files.
OptionAlphabet ==
    {Pos("a.md"), Flag("--keep-title"), Flag("--no-mac-code-block"),
     Flag("--mac-code-block"), Flag("--line-number"), Flag("--cite"), Flag("--count"),
     FlagEq("--theme", "modern"), FlagEq("--theme", "mine"), Flag("--color"),
     Pos("green"), FlagEq("--color", "red"), FlagEq("--font-family", "serif"),
     FlagEq("--font-size", "18"), FlagEq("--code-theme", "vs"),
     FlagEq("--legend", "none")}

ProjectLines ==
    <<[key |-> "default_theme", value |-> "grace"],
      [key |-> "default_font_size", value |-> "15"],
      [key |-> "cite", value |-> "true"],
      [key |-> "mac_code_block", value |-> "false"],
      [key |-> "legend", value |-> "title"]>>

UserLines ==
    <<[key |-> "default_theme", value |-> "modern"],
      [key |-> "default_color", value |-> "purple"],
      [key |-> "default_font_family", value |-> "mono"],
      [key |-> "default_code_theme", value |-> "xcode"],
      [key |-> "keep_title", value |-> "true"],
      [key |-> "show_line_number", value |-> "true"],
      [key |-> "count", value |-> "true"]>>

InitOptions ==
    /\ InitRunStart
    /\ processArgv \in UNION {[1..n -> OptionAlphabet] : n \in 0..MaxOptionArgs}
    /\ projectExtend \in {NoFile, PlainFile, BlockFile(<<>>), BlockFile(ProjectLines)}
    /\ userExtend \in {NoFile, BlockFile(UserLines)}
    /\ themeDir = {"base", "default", "grace", "modern", "mine"}
    /\ inputFiles = {"a.md"}
    /\ output0 = Absent
    /\ InitFiles

NextOptions == MainStep

SpecOptions == InitOptions /\ [][NextOptions]_vars

\* One run for every per-project EXTEND.md of up to MaxConfigLines lines that
\* set a theme, a font size, a code theme or a legend, inside and outside the
\* lists of the command line, with and without flags for the same options.
ConfigLines ==
    {[key |-> "default_theme", value |-> v] : v \in {"grace", "nope"}}
    \cup {[key |-> "default_font_size", value |-> v] : v \in {"15", "17px", "20"}}
    \cup {[key |-> "default_code_theme", value |-> v] : v \in {"xcode", "nope"}}
    \cup {[key |-> "legend", value |-> v] : v \in {"title", "caption"}}

ConfigFiles ==
    {NoFile} \cup {BlockFile(l) : l \in UNION {[1..n -> ConfigLines] : n \in 1..MaxConfigLines}}

ConfigArgvs ==
    {<<Pos("a.md")>>, <<Pos("a.md"), FlagEq("--font-size", "18")>>,
     <<Pos("a.md"), FlagEq("--font-size", "20")>>,
     <<Pos("a.md"), FlagEq("--legend", "none")>>,
     <<Pos("a.md"), FlagEq("--code-theme", "vs")>>,
     <<Pos("a.md"), FlagEq("--theme", "default")>>,
     <<Pos("a.md"), FlagEq("--theme", "nope")>>}

InitConfig ==
    /\ InitRunStart
    /\ processArgv \in ConfigArgvs
    /\ projectExtend \in ConfigFiles
    /\ userExtend = NoFile
    /\ themeDir = {"base", "default", "grace"}
    /\ inputFiles = {"a.md"}
    /\ output0 = Absent
    /\ InitFiles

NextConfig == MainStep

SpecConfig == InitConfig /\ [][NextConfig]_vars

\* One run on every command line of up to MaxArgs arguments that may hold a
\* help flag.
HelpAlphabet ==
    {Pos("a.md"), Pos(""), Pos("-h"), Flag("--help"), Flag("--bogus"), Flag("--cite"),
     Flag("--color"), FlagEq("--legend", "caption")}

InitHelp ==
    /\ InitRunStart
    /\ processArgv \in UNION {[1..n -> HelpAlphabet] : n \in 0..MaxArgs}
    /\ projectExtend = NoFile
    /\ userExtend = NoFile
    /\ themeDir = {"base", "default", "grace"}
    /\ inputFiles = {"a.md"}
    /\ output0 = Absent
    /\ InitFiles

NextHelp == MainStep

SpecHelp == InitHelp /\ [][NextHelp]_vars

\* Nothing of the earlier sections is going on.
InitEarlierIdle ==
    /\ InitSession
    /\ opts.citeStatus = Undefined
    /\ InitLists
    /\ InitRepairIdle
    /\ InitCssIdle
    /\ InitRunIdle

\* Every file of up to MaxBodyLen lines after an optional front-matter block
\* goes through the stages, with either renderMarkdown.
BodyLines == {StrongLine, TextLine, Fence}

MarkdownFiles ==
    {front \o body : front \in {<<>>, <<Fence, YamlLine, Fence>>},
                     body \in UNION {[1..n -> BodyLines] : n \in 0..MaxBodyLen}}

InitPipe ==
    /\ InitEarlierIdle
    /\ mdImpl \in {"renderer.ts", "part_000"}
    /\ rawDoc \in MarkdownFiles
    /\ stageLog = <<>>
    /\ mdPc = FirstStage(mdImpl)
    /\ InitScopeIdle
    /\ InitLastIdle

NextPipe ==
    \/ SplitFrontMatter
    \/ NormalizeEmphasis
    \/ ParseMarkdown
    \/ PostProcess
    \/ BuildDocument
    \/ InlineStyles
    \/ NormalizeVariables
    \/ RepairStructure
    \/ WriteDocument

SpecPipe == InitPipe /\ [][NextPipe]_vars

\* Every base.css of up to MaxSheetLen rules is assembled with a theme
\* stylesheet. The selectors of the rules: #output alone, as the prefix of a
\* descendant or child selector, after a comma, as the last part, and
\* indented with a class of its own.
SheetSelectors ==
    {<<OutputId, Blank>>,
     <<OutputId>>,
     <<OutputId, Blank, ClassSel, Blank>>,
     <<OutputId, Child, ClassSel, Blank>>,
     <<ClassSel, Comma, Blank, OutputId, Child, ClassSel, Blank>>,
     <<ClassSel, Blank, OutputId, Blank>>,
     <<Blank, Blank, OutputId, ClassSel, Blank>>,
     <<ClassSel, Blank>>}

SheetRules == {selector \o <<BraceOpen, "}", LineEnd>> : selector \in SheetSelectors}

Stylesheets == {Concat(rules) : rules \in UNION {[1..n -> SheetRules] : n \in 0..MaxSheetLen}}

InitScope ==
    /\ InitEarlierIdle
    /\ InitPipeIdle
    /\ InitLastIdle
    /\ baseCss \in Stylesheets
    /\ themeCss \in {<<>>, <<OutputId, Blank, ClassSel, Blank, BraceOpen, "}", LineEnd>>}
    /\ assembledCss = <<>>
    /\ scopePc = "loaded"

NextScope == AssembleCss

SpecScope == InitScope /\ [][NextScope]_vars

\* Paragraphs and code blocks are rendered by one renderer.
MaxInline == 3

\* Tokens.Paragraph: the inline children.
InlineChildren ==
    {TextTok(<<"a">>), TextTok(<<" ">>), CodespanTok(<<"a">>), ImageChild}

ParagraphTokens ==
    {[tokens |-> c] : c \in UNION {[1..n -> InlineChildren] : n \in 0..MaxInline}}

\* Tokens.Code: the language tag (absent, registered, registered with a
\* title after it, plaintext, unregistered, mermaid) and the raw text.
CodeLangs ==
    {<<>>, <<"javascript">>, <<"javascript", "title">>, <<"plaintext">>,
     <<"rusty">>, <<"rusty", "title">>, <<"mermaid">>, <<"mermaidjs">>,
     <<"mermaid", "title">>}

CodeTokens ==
    {[lang |-> l, text |-> x] : l \in CodeLangs, x \in {<<"x">>, <<"\"", "x", "\"">>}}

LineNumberOpts == {[isShowLineNumber |-> b] : b \in Flags}

InitBlocks ==
    /\ InitEarlierIdle
    /\ InitLaterIdle

NextBlocks ==
    \/ \E tok \in ParagraphTokens : RenderParagraph(tok)
    \/ \E tok \in CodeTokens : Code(tok)
    \/ \E o \in LineNumberOpts : SetOptions(o)

SpecBlocks == InitBlocks /\ [][NextBlocks]_vars

\* Two renderers are made, in either order, and documents of one link are
\* rendered with either.
CiteTokens ==
    {[href |-> h, title |-> NoString, text |-> <<"A">>,
      tokens |-> <<TextTok(<<"A">>)>>] : h \in OtherHrefs}

RendererOpts ==
    {[citeStatus |-> c, legend |-> NoString, isShowLineNumber |-> Undefined] :
        c \in {"true", "false"}}

InitInst ==
    /\ InitEarlierIdle
    /\ InitPipeIdle
    /\ InitScopeIdle
    /\ InitInstIdle
    /\ InitReplicateIdle

NextInst ==
    \/ \E name \in RendererNames, o \in RendererOpts : InitRenderer(name, o)
    \/ \E name \in RendererNames, tok \in CiteTokens : RenderWith(name, tok)

SpecInst == InitInst /\ [][NextInst]_vars

\* One call of generateImage.
InitReplicate ==
    /\ InitEarlierIdle
    /\ InitPipeIdle
    /\ InitScopeIdle
    /\ InitInstIdle
    /\ repPc = "create"
    /\ prediction = NoPrediction
    /\ pollRequests = 0
    /\ pollElapsed = 0
    /\ lastPoll = "none"
    /\ sawSucceeded = FALSE
    /\ downloads = 0
    /\ repError = ""

NextReplicate ==
    \/ \E ok \in BOOLEAN, resp \in CreateResponses : CreatePrediction(ok, resp)
    \/ \E ok \in BOOLEAN, resp \in PollResponses, took \in RequestMs :
          PollRequest(ok, resp, took)
    \/ PollTimeout
    \/ \E late \in LateMs : Sleep(late)
    \/ ExtractOutputUrl
    \/ \E ok \in BOOLEAN : DownloadImage(ok)

\* The event loop runs every continuation that is ready, and every request
\* returns.
SpecReplicate == InitReplicate /\ [][NextReplicate]_vars /\ WF_vars(NextReplicate)

\* ------------------------------------------------------------------------
\* Properties of the footnote registry and of the link rule
\* ------------------------------------------------------------------------


HasAnchor(str) == Contains(str, "<a href=")
HasSup(str) == Contains(str, "<sup>[")

\* The link rule was the last operation and it called addFootnote.
Cited == lastOp = "link" /\ lastRef # 0

C1_RegistryShape ==
    /\ footnoteIndex = Len(footnotes)
    /\ \A i \in 1..Len(footnotes) : footnotes[i][1] = i
    /\ \A i, j \in 1..Len(footnotes) : i # j => footnotes[i][3] # footnotes[j][3]

C1_CiteStep ==
    Cited' =>
        LET link == lastTok'.href
            known == {i \in 1..Len(footnotes) : footnotes[i][3] = link}
        IN IF known # {}
           THEN /\ footnotes' = footnotes
                /\ footnoteIndex' = footnoteIndex
                /\ \A i \in known : lastRef' = footnotes[i][1]
           ELSE /\ Len(footnotes') = Len(footnotes) + 1
                /\ SubSeq(footnotes', 1, Len(footnotes)) = footnotes
                /\ footnotes'[Len(footnotes')][3] = link
                /\ lastRef' = Len(footnotes) + 1

\* C1: the registry's indices are 1..n in first-seen order, no two entries
\* share a link and footnoteIndex = n; citing a registered link returns its
\* original index and appends nothing, citing a new one appends it with the
\* next index.
C1_FootnoteRegistry == []C1_RegistryShape /\ [][C1_CiteStep]_vars

\* Two distinct links are registered as 1 and 2 and the first was cited again.
C1_Witness ==
    /\ Cited
    /\ Len(footnotes) = 2
    /\ citedSince = 2
    /\ lastRef = 1
    /\ lastTok.href = footnotes[1][3]

\* C2: right after reset the registry is empty, the counter is 0 and
\* buildFootnotes returns the empty string; the first link cited after a
\* reset gets index 1.
C2_ResetClears ==
    /\ lastOp = "reset" =>
            footnotes = <<>> /\ footnoteIndex = 0 /\ BuildFootnotes = EmptyString
    /\ wasReset /\ citedSince = 0 => footnotes = <<>> /\ footnoteIndex = 0
    /\ wasReset /\ firstRef # 0 => firstRef = 1 /\ footnotes[1][1] = 1

\* A second render, after a reset that emptied a registry with entries, has
\* cited its first link.
C2_Witness ==
    /\ clearedNonEmpty
    /\ Cited
    /\ citedSince = 1
    /\ firstRef = 1
    /\ Len(footnotes) = 1

TextIsHref == lastOp = "link" /\ lastTok.text = lastTok.href

PlainText ==
    /\ out = ParseInline(lastTok.tokens)
    /\ ~HasAnchor(out)
    /\ ~HasSup(out)

\* C5 as stated: every link whose text is its href is emitted as the
\* rendered text only, for every href.
C5_Original == TextIsHref => PlainText

\* C5: a link whose text is its href and whose href is not a platform link
\* is emitted as the rendered text only, whatever citeStatus is, and is not
\* registered; a platform link whose text is its href is emitted as an anchor.
C5_TextEqualsHref ==
    TextIsHref =>
        IF IsPlatformLink(lastTok.href)
        THEN out = Anchor(lastTok.href, lastTok.text, ParseInline(lastTok.tokens))
        ELSE PlainText /\ lastRef = 0

\* In citation mode, with a footnote registered, a bare URL that is not a
\* platform link was emitted as text.
C5_Witness ==
    /\ TextIsHref
    /\ ~IsPlatformLink(lastTok.href)
    /\ TruthyFlag(opts.citeStatus)
    /\ Len(footnotes) >= 1
    /\ out = lastTok.href

C6_LinkStep ==
    lastOp' = "link" =>
        LET tok == lastTok'
            shown == TitleOrText(tok.title, tok.text)
            parsedText == ParseInline(tok.tokens)
            registers ==
                /\ TruthyFlag(opts.citeStatus)
                /\ ~IsPlatformLink(tok.href)
                /\ tok.href # tok.text
        IN /\ IsPlatformLink(tok.href) =>
                /\ out' = Anchor(tok.href, shown, parsedText)
                /\ ~HasSup(out')
           /\ ~registers =>
                /\ footnotes' = footnotes
                /\ footnoteIndex' = footnoteIndex
                /\ ~HasSup(out')
           /\ registers =>
                \E i \in 1..Len(footnotes') :
                    /\ footnotes'[i][3] = tok.href
                    /\ out' = Anchor(tok.href, shown, parsedText \o Sup(footnotes'[i][1]))

\* C6: a platform link is emitted as a plain anchor and leaves the registry
\* and the counter unchanged, also in citation mode; the links registered
\* are exactly those rendered in citation mode that are neither platform
\* links nor text-equals-href links, each marked with its registry index.
C6_PlatformPassThrough == [][C6_LinkStep]_vars

\* In citation mode, with a footnote registered, a labelled platform link
\* was emitted without a marker.
C6_Witness ==
    /\ lastOp = "link"
    /\ IsPlatformLink(lastTok.href)
    /\ lastTok.text # lastTok.href
    /\ TruthyFlag(opts.citeStatus)
    /\ Len(footnotes) >= 1
    /\ lastRef = 0
    /\ HasAnchor(out)
    /\ ~HasSup(out)

\* ------------------------------------------------------------------------
\* Properties of the image rule
\* ------------------------------------------------------------------------

FigcaptionOpen == "<figcaption class=figcaption>"
FigcaptionClose == "</figcaption>"

HasFigcaption(str) == Contains(str, FigcaptionOpen)

\* What stands between the figcaption tags of str; the empty string if none.
FigcaptionOf(str) ==
    IF ~HasFigcaption(str) THEN EmptyString
    ELSE LET a == CHOOSE i \in 1..Len(str) : str[i] = FigcaptionOpen
             b == CHOOSE i \in 1..Len(str) : str[i] = FigcaptionClose
         IN SubSeq(str, a + 1, b - 1)

\* The caption a policy asks for: the field of the first option, in policy
\* order, that is alt with an alt text or title with a title.
PolicyCaption(legend, text, title) ==
    LET options == Split(legend)
        hits == {i \in 1..Len(options) :
                    \/ options[i] = <<"alt">> /\ text \notin {NoString, EmptyString}
                    \/ options[i] = <<"title">> /\ title \notin {NoString, EmptyString}}
    IN IF legend \in {NoString, EmptyString} \/ hits = {}
       THEN EmptyString
       ELSE LET i == CHOOSE k \in hits : \A j \in hits : k <= j
            IN IF options[i] = <<"alt">> THEN text ELSE title

\* C7: the caption is the field of the first option of the policy that has
\* a value, else empty: title-alt gives the title when there is one, alt
\* never gives the title, none or no legend gives no caption; a figcaption
\* is emitted exactly when the caption is not empty.
C7_LegendPolicy ==
    lastOp = "image" =>
        LET caption == FigcaptionOf(out)
            text == lastTok.text
            title == lastTok.title
            present(x) == x \notin {NoString, EmptyString}
        IN /\ caption = PolicyCaption(opts.legend, text, title)
           /\ HasFigcaption(out) <=> caption # EmptyString
           /\ opts.legend = <<"title", "-", "alt">> /\ present(title) => caption = title
           /\ opts.legend = <<"alt">> => caption = (IF present(text) THEN text ELSE EmptyString)
           /\ opts.legend \in {<<"none">>, NoString, EmptyString} => ~HasFigcaption(out)

\* Under title-alt an image with both a title and an alt text got the title.
C7_Witness ==
    /\ lastOp = "image"
    /\ opts.legend = <<"title", "-", "alt">>
    /\ lastTok.title = <<"t">>
    /\ lastTok.text = <<"a">>
    /\ FigcaptionOf(out) = <<"t">>

\* ------------------------------------------------------------------------
\* Properties of the list rules
\* ------------------------------------------------------------------------

\* The nesting depth of the list being rendered: the renderer.list calls
\* in progress.
Depth == Len(callStack)

C3_StackShape ==
    /\ Len(listOrderedStack) = Depth
    /\ Len(listCounters) = Depth
    /\ \A d \in 1..Depth : listOrderedStack[d] = callStack[d].token.ordered
    /\ Depth = 0 => listOrderedStack = <<>> /\ listCounters = <<>>

C3_StackStep ==
    /\ Len(callStack') = Depth + 1 =>
            /\ Front(listOrderedStack') = listOrderedStack
            /\ Front(listCounters') = listCounters
    /\ Len(callStack') = Depth - 1 =>
            /\ listOrderedStack' = Front(listOrderedStack)
            /\ listCounters' = Front(listCounters)
    /\ Len(callStack') = Depth /\ Depth > 0 =>
            /\ listOrderedStack' = listOrderedStack
            /\ Front(listCounters') = Front(listCounters)
            /\ Last(listCounters') =
                  IF Len(Last(callStack').prefixes) = Len(TopFrame.prefixes) + 1
                  THEN Last(listCounters) + 1
                  ELSE Last(listCounters)

\* C3: the two stacks have the length of the nesting depth at every point
\* of a render; entering a list pushes one frame on each and leaving it pops
\* one from each; an item changes only the top counter, by one; with no list
\* being rendered both are empty, also after items fell back to the block
\* parser.
C3_ListStacks == []C3_StackShape /\ [][C3_StackStep]_vars

\* A document whose items fell back to the block parser for their sub-lists
\* has been rendered, and the stacks are empty.
C3_Witness ==
    /\ pc = "render"
    /\ Depth = 0
    /\ doc # EmptyString
    /\ doc # docExpected
    /\ listOrderedStack = <<>>
    /\ listCounters = <<>>

\* The prefix of the k-th item of a list.
PrefixOf(token, k) ==
    IF token.ordered
    THEN LET first == IF token.start = NoString THEN 1
                      ELSE CHOOSE n \in 1..MaxStart : <<ToString(n)>> = token.start
         IN <<ToString(first + k - 1) \o ". ">>
    ELSE <<Bullet>>

\* C4: the items of an ordered list carry start, start + 1, ... (start is 1
\* when not given) and those of an unordered list the bullet, whatever the
\* enclosing lists are and whatever was rendered between two items.
C4_ItemPrefixes ==
    \A d \in 1..Depth :
        \A k \in 1..Len(callStack[d].prefixes) :
            callStack[d].prefixes[k] = PrefixOf(callStack[d].token, k)

\* An ordered list that starts at 2 has numbered its second item 3 after a
\* list nested in its first item was rendered, numbered from 1.
C4_Witness ==
    /\ Depth = 1
    /\ callStack[1].token = [ordered |-> TRUE, start |-> <<"2">>]
    /\ callStack[1].prefixes = << <<"2. ">>, <<"3. ">> >>
    /\ Contains(callStack[1].html, OlOpen)
    /\ Contains(callStack[1].html, "1. ")

\* ------------------------------------------------------------------------
\* Properties of modifyHtmlStructure
\* ------------------------------------------------------------------------

\* Every closing tag of a list or an item closes the innermost open one.
RECURSIVE WellNestedFrom(_, _)
WellNestedFrom(h, open) ==
    IF h = <<>> THEN open = <<>>
    ELSE LET t == Head(h)
         IN IF t \in {LiOpen, UlOpen, OlOpen}
            THEN WellNestedFrom(Tail(h), Append(open, t))
            ELSE IF t \in {LiClose, UlClose, OlClose}
            THEN /\ open # <<>>
                 /\ \/ t = LiClose /\ Last(open) = LiOpen
                    \/ t = UlClose /\ Last(open) = UlOpen
                    \/ t = OlClose /\ Last(open) = OlOpen
                 /\ WellNestedFrom(Tail(h), Front(open))
            ELSE WellNestedFrom(Tail(h), open)

WellNested(h) == WellNestedFrom(h, <<>>)

\* The markup of one list: no proper prefix of it closes every tag it opens.
SingleList(h) ==
    /\ h # <<>>
    /\ WellNested(h)
    /\ \A n \in 1..(Len(h) - 1) : ~WellNested(SubSeq(h, 1, n))

\* C8 as stated: for the markup of one rendered list (its items holding at
\* most one sub-list each) modifyHtmlStructure returns the markup with every
\* sub-list right after its own parent item, every tag matched.
C8_Original ==
    pc = "done" /\ ~multiSub /\ SingleList(input) =>
        html = docExpected /\ WellNested(html)

\* An <li ...>, then a <ul...</ul> or <ol...</ol> block that a </li> follows.
HasPattern(h) ==
    \E i, j, k \in 1..Len(h) :
        /\ i < j
        /\ j < k
        /\ k < Len(h)
        /\ h[i] = LiOpen
        /\ \/ h[j] = UlOpen /\ h[k] = UlClose
           \/ h[j] = OlOpen /\ h[k] = OlClose
        /\ h[k + 1] = LiClose

\* C9: the loop of modifyHtmlStructure ends for every input, and what it
\* returns holds no instance of the pattern.
C9_RepairTerminates ==
    /\ <>(pc = "done")
    /\ [](pc = "done" => ~HasPattern(html))

\* A call has returned after two runs of the loop body or more.
C9_Witness ==
    /\ pc = "done"
    /\ applied = 1
    /\ iterations = 2
    /\ HasPattern(input)
    /\ ~HasPattern(html)

\* C10: modifyHtmlStructure applied to its own result returns it unchanged.
C10_Idempotent ==
    pc = "done" /\ applied = 2 => html = firstResult

\* The second call has returned what the first, which changed its input, had.
C10_Witness ==
    /\ pc = "done"
    /\ applied = 2
    /\ firstResult # input
    /\ html = firstResult

\* ------------------------------------------------------------------------
\* Properties of the normalization
\* ------------------------------------------------------------------------

\* The var(--...) references the texts and the style values may hold.
VarRefs ==
    {Ref(PropertyOf[f]) : f \in StyleFields} \cup {Ref(OwnProperty), Ref("--brand")}

HasVarRef(text) == \E i \in 1..Len(text) : text[i] \in VarRefs

Normalized == cssPc = "normalized"

\* C11 as stated: whatever the document, the stylesheet and the style
\* configuration are, no var(--...) reference is left after normalization,
\* in a <style> block or in a style attribute.
C11_Original == Normalized => ~HasVarRef(normalized)

\* What an item is to become: a declaration nothing, a reference the
\* configured value.
ExpectedItemText(item, st) ==
    IF item.kind = "declaration" THEN <<>>
    ELSE <<"p:">> \o st[item.field] \o <<Semi>>

RECURSIVE ExpectedCssText(_, _)
ExpectedCssText(items, st) ==
    IF items = <<>> THEN <<>>
    ELSE ExpectedItemText(Head(items), st) \o ExpectedCssText(Tail(items), st)

\* The quotes of a kind in a text.
RECURSIVE CountOf(_, _)
CountOf(text, tok) ==
    IF text = <<>> THEN 0
    ELSE (IF Head(text) = tok THEN 1 ELSE 0) + CountOf(Tail(text), tok)

\* The text holds declarations and references var(--x) of the six replaced
\* style variables only.
DeclarationsAndRefsOnly ==
    /\ \A n \in 1..Len(cssItems) :
          \/ cssItems[n].kind = "declaration"
          \/ cssItems[n].kind = "use" /\ cssItems[n].field # "foreground"
    /\ \A f \in StyleFields : ~HasVarRef(style[f])

\* C12 as stated: normalization puts the configured value for every
\* reference, removes every declaration whole, and a style attribute still
\* ends at the quote it ended at.
C12_Original ==
    Normalized /\ DeclarationsAndRefsOnly =>
        /\ normalized = InlinedDocument(cssPlace, ExpectedCssText(cssItems, style))
        /\ cssPlace = "dq" => CountOf(normalized, DQ) = 1
        /\ cssPlace = "sq" => CountOf(normalized, SQ) = 1

\* ------------------------------------------------------------------------
\* Properties of the runs of main
\* ------------------------------------------------------------------------

Exited == runPc = "exit"

Succeeded == Exited /\ exitCode = 0

\* The run has renamed what was in its way, or had nothing to rename, and
\* has come to writeFileSync.
ReachedWrite == runPc = "backedUp" \/ (Exited /\ Contains(io, "write output"))

\* <output>.bak-<YYYYMMDDHHMMSS> at the time of the run.
BackupNameNow ==
    "a.html" \o ".bak-" \o "2026" \o "01" \o "05" \o "09" \o "07"
        \o (IF now < 10 THEN "0" ELSE "") \o ToString(now)

\* C13: in a run that reaches the write step, a file that was at the output
\* path is, before the write, a backup named <output>.bak-<YYYYMMDDHHMMSS>
\* and no longer at the output path, and without such a file the backups are
\* what they were; two successful runs that started without an output file
\* leave one backup, holding the output of the first, and the output of
\* the second at the output path.
C13_BackupBeforeWrite ==
    /\ ReachedWrite /\ before.output # Absent =>
          /\ [name |-> BackupNameNow, content |-> before.output] \in backups
          /\ \A f \in backups : f.name # BackupNameNow => f \in before.backups
          /\ \A f \in before.backups : f.name # BackupNameNow => f \in backups
          /\ runPc = "backedUp" => output = Absent
    /\ ReachedWrite /\ before.output = Absent => backups = before.backups
    /\ Succeeded /\ runNo = 2 /\ exits = <<0, 0>> /\ output0 = Absent =>
          /\ Cardinality(backups) = 1
          /\ \A f \in backups : f.content = "run1" /\ f.name = BackupNameNow
          /\ output = "run2"

\* The second of two successful runs has ended.
C13_Witness ==
    /\ Succeeded
    /\ runNo = 2
    /\ exits = <<0, 0>>
    /\ output0 = Absent
    /\ before.output = "run1"
    /\ Cardinality(backups) = 1

FilesAsBefore == output = before.output /\ backups = before.backups

\* C14 as stated: a run that ends with a fatal error, a failure while
\* writing included, leaves the output path and the backups as they were
\* before it.
C14_Original == Exited /\ exitCode # 0 => FilesAsBefore

\* The value the last --theme of the command line gives, "" without one.
RECURSIVE ThemeFlagValue(_, _)
ThemeFlagValue(argv, i) ==
    IF i = 0 THEN ""
    ELSE IF argv[i].name = "--theme" /\ argv[i].hasEq THEN argv[i].value
    ELSE IF argv[i].name = "--theme" /\ i < Len(argv) THEN Raw(argv[i + 1])
    ELSE ThemeFlagValue(argv, i - 1)

\* The theme the run asks for: on the command line, else in the config
\* file, else "default".
ResolvedTheme ==
    IF ThemeFlagValue(processArgv, Len(processArgv)) # ""
    THEN ThemeFlagValue(processArgv, Len(processArgv))
    ELSE OrElse(LoadExtendConfig(projectExtend, userExtend), "default_theme", "default")

\* The .css files of the themes directory, or the three built-in names when
\* it holds no theme.
KnownThemes ==
    IF \E name \in themeDir : name # "base" THEN themeDir \ {"base"}
    ELSE {"default", "grace", "simple"}

BadTheme ==
    \/ ResolvedTheme \notin KnownThemes
    \/ "base" \notin themeDir
    \/ ResolvedTheme \notin themeDir

InRun == runPc # "idle"

\* C15: a run whose theme is not a known theme, or whose base or theme
\* stylesheet is missing, never gets to read the input or to render, leaves
\* the output path and the backups alone, and ends with a non-zero exit.
C15_ThemeFatalBeforeRendering ==
    InRun /\ BadTheme =>
        /\ ~didRender
        /\ ~Contains(io, "read input")
        /\ runPc \in {"start", "parsed", "styled", "exit"}
        /\ FilesAsBefore
        /\ Exited => exitCode # 0

\* A run has come to loadThemeCss, which has thrown.
C15_Witness ==
    /\ Exited
    /\ BadTheme
    /\ Contains(io, "exists base.css")
    /\ exitCode = 1

\* parseArgs gave a path that does not end in .md, in whatever case.
NotMarkdownInput == ~cliOptions.null /\ cliOptions.inputPath = "a.txt"

\* C16 as stated: a run whose input path does not end in .md exits non-zero
\* without having read, checked, renamed or written any file.
C16_Original == Exited /\ NotMarkdownInput => exitCode # 0 /\ io = <<>>

StartupReads == {"scan themes dir", "read project EXTEND.md", "read user EXTEND.md"}

\* C16: a run whose input path does not end in .md exits non-zero having
\* done no more file I/O than the scan of the themes directory and the
\* reads of the EXTEND.md files that come before the options exist: the
\* input, the stylesheets and the output path are not touched.
C16_RejectedBeforeInputIO ==
    InRun /\ NotMarkdownInput =>
        /\ \A n \in 1..Len(io) : io[n] \in StartupReads
        /\ FilesAsBefore
        /\ ~didRender
        /\ runPc \in {"parsed", "exit"}
        /\ Exited => exitCode # 0 /\ error = "Input file must end with .md"

\* Such a run has ended, after the reads that come before the check.
C16_Witness ==
    /\ Exited
    /\ NotMarkdownInput
    /\ io # <<>>
    /\ exitCode = 1

\* ------------------------------------------------------------------------
\* Properties of parseArgs
\* ------------------------------------------------------------------------

\* A token that starts with "--" and is none of the flags of the usage text,
\* or a flag that takes no value written with one.
UnknownFlag(arg) ==
    /\ arg.name # ""
    /\ \/ arg.name \notin BooleanFlags \cup ValueFlags \cup {"--help"}
       \/ arg.hasEq /\ arg.name \notin ValueFlags

\* argv[i] is what a value-taking flag before it was given.
IsValueAt(argv, i) ==
    /\ i > 1
    /\ argv[i].name = ""
    /\ argv[i - 1].name \in ValueFlags
    /\ ~argv[i - 1].hasEq

Positionals(argv) == {i \in 1..Len(argv) : argv[i].name = "" /\ ~IsValueAt(argv, i)}

\* A value-taking flag that ends the command line, is followed by another
\* flag, or is written with "=" and nothing after it.
WithoutValue(argv, i) ==
    /\ argv[i].name \in ValueFlags
    /\ IF argv[i].hasEq THEN argv[i].value = ""
       ELSE i = Len(argv) \/ argv[i + 1].name # ""

\* What the value-taking flag at i was given.
GivenValue(argv, i) == IF argv[i].hasEq THEN argv[i].value ELSE argv[i + 1].value

OutsideAllowList(argv, i) ==
    /\ argv[i].name \in {"--font-size", "--code-theme", "--legend"}
    /\ ~WithoutValue(argv, i)
    /\ LET val == GivenValue(argv, i)
       IN \/ argv[i].name = "--font-size" /\
                 (IF val \in {"14", "15", "16", "17", "18"} THEN val \o "px" ELSE val)
                     \notin {"14px", "15px", "16px", "17px", "18px"}
          \/ argv[i].name = "--code-theme" /\ val \notin CODE_BLOCK_THEMES
          \/ argv[i].name = "--legend"
               /\ val \notin {"title-alt", "alt-title", "title", "alt", "none"}

InvalidVector(argv) ==
    \/ \E i \in 1..Len(argv) : UnknownFlag(argv[i])
    \/ Cardinality(Positionals(argv)) >= 2
    \/ \E i \in 1..Len(argv) : WithoutValue(argv, i)
    \/ \E i \in 1..Len(argv) : OutsideAllowList(argv, i)

Parsed == runPc \notin {"idle", "start"}

\* C17 as stated: on a command line with an unknown flag, a second
\* positional argument, a value-taking flag without a value, or a font size,
\* code theme or legend outside its list, parseArgs returns null, and main
\* prints the usage and exits non-zero, nothing rendered, nothing written.
C17_Original ==
    Parsed /\ InvalidVector(processArgv) =>
        /\ cliOptions.null
        /\ usagePrinted
        /\ Exited /\ exitCode # 0
        /\ ~didRender
        /\ FilesAsBefore

\* The last place of the command line that holds one of the flags, 0 when
\* none does.
RECURSIVE LastOf(_, _, _)
LastOf(argv, names, i) ==
    IF i = 0 THEN 0
    ELSE IF argv[i].name \in names THEN i
    ELSE LastOf(argv, names, i - 1)

Present(flag) == LastOf(processArgv, {flag}, Len(processArgv)) # 0

\* The value the flag is given where it stands last.
FlagValue(flag) ==
    LET i == LastOf(processArgv, {flag}, Len(processArgv))
    IN IF processArgv[i].hasEq THEN processArgv[i].value
       ELSE IF i < Len(processArgv) THEN Raw(processArgv[i + 1])
       ELSE ""

\* The config file of the run: the per-project one when it has a
\* front-matter block, else the per-user one.
ConfigFileUsed ==
    IF projectExtend.exists /\ projectExtend.block THEN projectExtend
    ELSE IF userExtend.exists /\ userExtend.block THEN userExtend
    ELSE NoFile

ConfigUsed == ParseExtendYaml(ConfigFileUsed.lines)

\* CLI flag, else config file, else default.
ByPrecedence(flag, key, default) ==
    IF Present(flag) THEN FlagValue(flag)
    ELSE IF key \in DOMAIN ConfigUsed THEN ConfigUsed[key]
    ELSE default

SwitchByPrecedence(flag, key, default) ==
    IF Present(flag) THEN TRUE
    ELSE IF key \in DOMAIN ConfigUsed THEN ConfigUsed[key]
    ELSE default

ExpectedMacCodeBlock ==
    LET i == LastOf(processArgv, {"--mac-code-block", "--no-mac-code-block"},
                    Len(processArgv))
    IN IF i # 0 THEN processArgv[i].name = "--mac-code-block"
       ELSE IF "mac_code_block" \in DOMAIN ConfigUsed THEN ConfigUsed["mac_code_block"]
       ELSE TRUE

HasOptions == Parsed /\ ~cliOptions.null

\* C18 as stated: each option is what its flag gives, else what the config
\* file gives, else its default, the config file being the per-project one
\* when it has a front-matter block and the per-user one otherwise.
C18_Original ==
    HasOptions =>
        /\ cliOptions.theme = ByPrecedence("--theme", "default_theme", "default")
        /\ cliOptions.keepTitle = SwitchByPrecedence("--keep-title", "keep_title", FALSE)
        /\ cliOptions.primaryColor =
              LET c == ByPrecedence("--color", "default_color", Undefined)
              IN IF c = Undefined THEN NoString ELSE ResolveColor(c)
        /\ cliOptions.fontFamily =
              LET f == ByPrecedence("--font-family", "default_font_family", Undefined)
              IN IF f = Undefined THEN NoString ELSE ResolveFontFamily(f)
        /\ cliOptions.fontSize =
              LET z == ByPrecedence("--font-size", "default_font_size", Undefined)
              IN IF z = Undefined THEN NoString ELSE <<WithPx(z)>>
        /\ cliOptions.codeTheme =
              ByPrecedence("--code-theme", "default_code_theme", "github")
        /\ cliOptions.isMacCodeBlock = ExpectedMacCodeBlock
        /\ cliOptions.isShowLineNumber =
              SwitchByPrecedence("--line-number", "show_line_number", FALSE)
        /\ cliOptions.citeStatus = SwitchByPrecedence("--cite", "cite", FALSE)
        /\ cliOptions.countStatus = SwitchByPrecedence("--count", "count", FALSE)
        /\ cliOptions.legend = ByPrecedence("--legend", "legend", "alt")

\* ------------------------------------------------------------------------
\* Properties of the style configuration
\* ------------------------------------------------------------------------

\* main has built the style configuration of the run.
Styled ==
    \/ runPc \in {"styled", "themed", "rendered", "built", "backedUp"}
    \/ Exited /\ Contains(io, "exists base.css")

ExplicitFields == {"primaryColor", "fontFamily", "fontSize"}

\* C19: every field of the style configuration is the explicit value when
\* the field is primaryColor, fontFamily or fontSize and one is given,
\* else the value of the theme when the theme defines the field, else the
\* built-in default.
C19_StyleLayers ==
    Styled =>
        /\ DOMAIN style = DOMAIN DEFAULT_STYLE
        /\ \A f \in DOMAIN DEFAULT_STYLE :
              style[f] =
                 IF f \in ExplicitFields /\ cliOptions[f] # NoString
                 THEN cliOptions[f]
                 ELSE IF cliOptions.theme \in DOMAIN THEME_STYLE_DEFAULTS
                         /\ f \in DOMAIN THEME_STYLE_DEFAULTS[cliOptions.theme]
                 THEN THEME_STYLE_DEFAULTS[cliOptions.theme][f]
                 ELSE DEFAULT_STYLE[f]

\* The modern theme with an explicit colour: the three layers all show.
C19_Witness ==
    /\ Styled
    /\ cliOptions.theme = "modern"
    /\ cliOptions.primaryColor = <<"red">>
    /\ style.primaryColor = <<"red">>
    /\ style.fontSize = <<"15px">>
    /\ style.foreground = DEFAULT_STYLE.foreground

\* ------------------------------------------------------------------------
\* Properties of the options of a renderer
\* ------------------------------------------------------------------------

\* C20 as stated: after reset and after setOptions the footnote registry is
\* empty and the footnote counter is 0.
C20_Original ==
    lastOp \in {"reset", "setOptions"} => footnotes = <<>> /\ footnoteIndex = 0

\* C20: the options change through reset and setOptions only; reset leaves
\* the footnote registry empty and the footnote counter at 0, and
\* setOptions leaves both as they were.
C20_OptionsChange ==
    [][/\ opts' # opts => lastOp' \in {"reset", "setOptions"}
       /\ lastOp' = "reset" => footnotes' = <<>> /\ footnoteIndex' = 0
       /\ lastOp' = "setOptions" =>
             footnotes' = footnotes /\ footnoteIndex' = footnoteIndex]_vars

\* setOptions has been called on a renderer that holds a footnote.
C20_Witness ==
    /\ lastOp = "setOptions"
    /\ Len(footnotes) > 0
    /\ footnoteIndex = Len(footnotes)

\* ------------------------------------------------------------------------
\* Properties of the stages
\* ------------------------------------------------------------------------

\* The lines after the front-matter block of the file.
BodyOfFile ==
    IF Len(rawDoc) >= 3 /\ rawDoc[1] = "---" /\ rawDoc[3] = "---"
    THEN SubSeq(rawDoc, 4, Len(rawDoc))
    ELSE rawDoc

\* C21 as stated: the stages run in the order split, emphasis, rendering,
\* post-processing, build, inlining, variables, repair, write, each on what
\* the stage before returned, and with either renderMarkdown the emphasis
\* stage is given the body that is left once the front-matter block is
\* split off.
C21_Original ==
    \A n \in 1..Len(stageLog) :
        /\ stageLog[n].stage = StageNames[n]
        /\ n > 1 => stageLog[n].given = stageLog[n - 1].result
        /\ stageLog[n].stage = "preprocessCjkEmphasis" => stageLog[n].given = BodyOfFile

\* ------------------------------------------------------------------------
\* Properties of the assembled CSS
\* ------------------------------------------------------------------------

Assembled == scopePc = "assembled"

\* The rules of the stylesheets that are scoped to #output and nothing else.
RECURSIVE OutputRules(_)
OutputRules(text) ==
    IF text = <<>> THEN 0
    ELSE (IF /\ Head(text) = "#output"
                /\ \/ Len(text) >= 2 /\ text[2] = "{"
                   \/ Len(text) >= 3 /\ text[2] = " " /\ text[3] = "{"
             THEN 1 ELSE 0)
            + OutputRules(Tail(text))

\* C22 as stated: whatever the stylesheets are, the assembled CSS holds no
\* #output: a rule scoped to #output alone targets body, and a compound
\* selector has lost the scope wherever #output stood in it.
C22_Original ==
    Assembled =>
        /\ ~Contains(assembledCss, "#output")
        /\ CountOf(assembledCss, "body") >= 2 + OutputRules(baseCss)

\* The paragraph's children are images only, or render to white space only.
SolelyImages(tok) ==
    /\ tok.tokens # <<>>
    /\ \A i \in 1..Len(tok.tokens) : tok.tokens[i].type = "image"

\* C23: the paragraph rule wraps the rendered inline content in a styled <p>
\* except when the content is empty or consists solely of a figure/image, which
\* is returned as it is; a paragraph that holds text next to an image is
\* wrapped.
C23_Original ==
    lastOp = "paragraph" =>
        LET text == ParseParagraphInline(opts, lastTok.tokens)
        IN IF TrimsToEmpty(text) \/ SolelyImages(lastTok)
           THEN out = text
           ELSE out = StyledContent("p", text, "p")

\* The pending attributes of a code block.
HasPending(markup) == \E i \in 1..Len(markup) : markup[i] = " data-language-pending="

HighlightedAs(markup, language) ==
    \E i \in 1..Len(markup) :
        markup[i] \in {"<hljs " \o language \o ">", "<hljs " \o language \o " numbered>"}

Highlighted(markup) ==
    \E i \in 1..Len(markup) : markup[i] = "</hljs>"

\* C24: a code block whose tag starts with mermaid is a <pre class="mermaid">
\* of the raw text, never highlighted; otherwise a registered first word is the
\* language highlighted, with no pending attributes; an unregistered first word
\* gives plain text with the pending attributes holding the name and the raw
\* source; no tag, or plaintext, gives plain text with no pending attributes.
C24_Original ==
    lastOp = "code" =>
        LET lang == lastTok.lang
            word == FirstWord(lang)
        IN IF StartsWithMermaid(lang)
           THEN /\ out = <<"<pre class=mermaid>">> \o lastTok.text \o <<"</pre>">>
                /\ ~Highlighted(out)
           ELSE IF lang = <<>> \/ word = "plaintext"
           THEN /\ HighlightedAs(out, "plaintext")
                /\ ~HasPending(out)
           ELSE IF GetLanguage(word)
           THEN /\ HighlightedAs(out, word)
                /\ ~HasPending(out)
           ELSE /\ HighlightedAs(out, "plaintext")
                /\ \E i \in 1..Len(out) - 2 :
                      /\ out[i] = " data-language-pending="
                      /\ out[i + 1] = word
                      /\ out[i + 2] = " data-raw-code="
                      /\ SubSeq(out, i + 3, i + 2 + Len(lastTok.text))
                            = EscapeQuotes(lastTok.text)

\* The renderer that the last document was not rendered with.
OtherRenderer == CHOOSE n \in RendererNames : n # renderedWith

\* C25: renderers are independent: with two renderers made in any order,
\* rendering a document with one of them uses that renderer's options,
\* records its citations in that renderer's registry only, and leaves the
\* other renderer's state as it was.
C25_Original ==
    renderedWith \in RendererNames =>
        LET was == renderersWere[renderedWith]
            r == LinkRule(was.footnotes, was.footnoteIndex, was.opts, renderedTok)
        IN /\ renderers[renderedWith].footnotes = r.footnotes
           /\ renderers[renderedWith].footnoteIndex = r.footnoteIndex
           /\ renderedHtml = r.html \o BuildFootnotesOf(r.footnotes)
           /\ renderers[OtherRenderer] = renderersWere[OtherRenderer]

\* generateImage is polling: in pollPrediction's loop or in its timer.
Polling == repPc \in {"poll", "sleep"}

\* generateImage has returned or thrown.
CallEnded == repPc \in {"returned", "threw"}

\* C28: generateImage returns image bytes only when a response with status
\* succeeded was taken (from the create request or from a poll) and its output
\* URL was downloaded; it polls only when the create response is not succeeded
\* and carries a poll URL; after a poll response of failed or canceled the call
\* has ended with that error, with no further poll and no download.
C28_BytesOnlyOnSuccess ==
    /\ repPc = "returned" =>
          /\ sawSucceeded
          /\ prediction.status = "succeeded"
          /\ HasOutputUrl(prediction)
          /\ downloads = 1
    /\ downloads > 0 => sawSucceeded /\ prediction.status = "succeeded"
    /\ (Polling \/ pollRequests > 0) =>
          \/ prediction.status # "succeeded" /\ prediction.pollUrl /\ ~sawSucceeded
          \/ lastPoll = "succeeded"
    /\ lastPoll \in {"failed", "canceled"} =>
          /\ repPc = "threw"
          /\ repError = "Replicate prediction " \o lastPoll
          /\ downloads = 0

\* Bytes are returned after a prediction that the create response left
\* unfinished, and a poll response of failed ended another call.
C28_Witness ==
    \/ repPc = "returned" /\ pollRequests >= 2
    \/ repPc = "threw" /\ lastPoll = "failed" /\ pollRequests >= 2

\* The most poll requests of one call: MAX_POLL_MS / POLL_INTERVAL_MS.
MostPolls == MaxPollMs \div PollIntervalMs

\* What pollPrediction has done so far fits its last response.
PollOutcome ==
    /\ pollRequests <= MostPolls
    /\ pollRequests >= 1 => pollElapsed >= PollIntervalMs * (pollRequests - 1)
    /\ lastPoll = "succeeded" => repPc \in {"extract", "download", "returned", "threw"}
    /\ lastPoll = "succeeded" /\ repPc = "threw" =>
          repError \in {"Unexpected Replicate output format",
                        "Failed to download image from Replicate"}
    /\ lastPoll = "not OK" => repPc = "threw" /\ repError = "Replicate poll error"
    /\ lastPoll \in {"failed", "canceled"} =>
          repPc = "threw" /\ repError = "Replicate prediction " \o lastPoll
    /\ lastPoll \in {"starting", "processing"} =>
          \/ Polling
          \/ /\ repPc = "threw"
             /\ repError = "Replicate prediction timed out"
             /\ pollElapsed >= MaxPollMs
    /\ repError = "Replicate prediction timed out" =>
          lastPoll \in {"starting", "processing"} /\ pollElapsed >= MaxPollMs

\* C29: pollPrediction always ends, given that each request returns: it
\* returns on the first succeeded response, throws on the first response that
\* is not OK, failed or canceled, and otherwise throws the timeout once
\* MAX_POLL_MS have passed; its requests are POLL_INTERVAL_MS or more apart, so
\* that it makes 150 requests at most, none of them once MAX_POLL_MS have passed.
C29_PollEnds ==
    /\ []PollOutcome
    /\ [][pollRequests' > pollRequests => pollElapsed < MaxPollMs]_vars
    /\ (Polling ~> ~Polling)

\* The timeout is thrown after the most requests a call can make.
C29_Witness ==
    /\ repError = "Replicate prediction timed out"
    /\ pollRequests = MostPolls

\* Every run so far has ended with exit status 0.
AllSucceeded == Succeeded /\ Len(exits) = runNo /\ \A n \in 1..runNo : exits[n] = 0

\* C26: no earlier output is lost: after k successful runs against the same
\* output path, however close in time, what each of the first k-1 runs wrote
\* is the content of a backup file, so that k-1 distinct backups exist.
C26_Original ==
    AllSucceeded =>
        /\ \A n \in 1..(runNo - 1) :
              \E f \in backups : f.content = "run" \o ToString(n)
        /\ Cardinality(backups) >= runNo - 1

\* C27: whenever parseArgs returns options, whatever the command line and
\* the config file hold, fontSize is unset or one of 14px..18px, legend is one
\* of the five legend values, codeTheme is in the list of code themes and
\* theme is one of the known theme names.
C27_Original ==
    HasOptions =>
        /\ cliOptions.fontSize = NoString \/ cliOptions.fontSize[1] \in FONT_SIZE_OPTIONS
        /\ cliOptions.legend \in LEGEND_VALUES
        /\ cliOptions.codeTheme \in CODE_BLOCK_THEMES
        /\ cliOptions.theme \in ThemeNames(themeDir)

\* argv[i] is a help flag and nothing before it is invalid.
HelpAt(argv, i) ==
    /\ Raw(argv[i]) \in {"--help", "-h"}
    /\ ~InvalidVector(SubSeq(argv, 1, i - 1))

\* C30: on every command line where --help or -h stands with no invalid
\* argument before it, also as the first argument when no input path has been
\* given, parseArgs returns null, so that the usage is printed; the help flag
\* is never taken as the input path.
C30_Original ==
    Parsed /\ (\E i \in 1..Len(processArgv) : HelpAt(processArgv, i)) =>
        /\ cliOptions.null
        /\ usagePrinted

====
